---------------------------- MODULE Spec2Model ----------------------------
(***************************************************************************)
(* Tab / tab-group state synchronisation of the chrome-ai-tabs extension.  *)
(*                                                                         *)
(*   src/vite-env.d.ts      tabStorage: the persisted TabState document,   *)
(*                          its (de)serialisation and its mutations        *)
(*   src/unnamed/part_001   TabContextProvider, full-resync variant:       *)
(*                          syncTabStates / refreshTabs and the listeners  *)
(*                                                                         *)
(* The browser (tabs, native tab groups, the events it fires) is the       *)
(* environment.  An async function is a process whose steps are its awaits;*)
(* the steps of different processes interleave freely, the order in which  *)
(* the browser answers outstanding calls being outside the program's       *)
(* control.                                                                *)
(***************************************************************************)
EXTENDS Integers, Sequences, FiniteSets, TLC

VARIABLES
    btabs,      \* browser: tab id -> [status, groupId, title, url]
    bgroups,    \* browser: native group id -> [status, title, color, collapsed]
    border,     \* browser: tab strip of the current window (open tab ids, in order)
    bver,       \* browser: number of changes made so far (the version of its state)
    events,     \* events fired by the browser and not yet delivered to a listener
    pass,       \* the refreshTabs calls in flight, one record per slot
    state,      \* the provider's local state (useState)
    store,      \* the persisted TabState document (tabStorage)
    store2,     \* a second persisted document, written by the same passes
    clock,      \* what new Date() returns; it advances when the browser changes
    hist,       \* history: the pass that made the last write, as it was then
    failed,     \* history: the step at which a pass last failed, if any
    serIn,      \* serialisation round trip: the TabState given
    serText,    \*   its serialised text
    serOut,     \*   the TabState read back
    ops,        \* the tabStorage mutations in flight, one record per slot
    nops,       \* how many tabStorage mutations have been called
    lastOp,     \* history: the mutation that made the last write, as it was then
    prevOp,     \* history: the mutation that made the write before that one
    uop,        \* the provider operation or drag handler that is running or ran last
    running     \* the context operations in flight, each at one of its awaits

browserVars == <<btabs, bgroups, border, bver>>
serVars     == <<serIn, serText, serOut>>
opVars      == <<ops, nops, lastOp, prevOp, uop, running>>
syncVars    == <<events, pass, state, store2, hist, failed>>
vars == <<btabs, bgroups, border, bver, events, pass, state, store, store2,
          clock, hist, failed, serIn, serText, serOut, ops, nops, lastOp, prevOp,
          uop, running>>

----------------------------------------------------------------------------
(* Bounds                                                                  *)

\* browser changes in one behaviour
MaxChanges == 1

\* tab ids; one of them lives in another window than the side panel's
Tabs == {1, 2, 3, 4}
WindowOf(t) == IF t = 4 THEN 2 ELSE 1
\* native group ids, handed out in increasing order and never reused
Groups == {1, 2, 3}
\* slots for overlapping refreshTabs calls
PassIds == {1, 2}
\* tabStorage mutations called in one behaviour, and slots for overlapping ones
MaxOps == 2
OpIds == {1, 2}

\* chrome.tabGroups.TAB_GROUP_ID_NONE: the groupId of a tab that is in no group
NoGroup == -1

----------------------------------------------------------------------------
(* JavaScript values that the code tests for truthiness                    *)

Null     == [type |-> "null",      num |-> 0, str |-> ""]
Undef    == [type |-> "undefined", num |-> 0, str |-> ""]
Num(n)   == [type |-> "number",    num |-> n, str |-> ""]
Str(s)   == [type |-> "string",    num |-> 0, str |-> s]
Bool(b)  == [type |-> "boolean",   num |-> IF b THEN 1 ELSE 0, str |-> ""]
\* a property that an object literal does not have at all
Absent   == [type |-> "absent",    num |-> 0, str |-> ""]

Truthy(v) ==
    \/ v.type = "number" /\ v.num # 0
    \/ v.type = "boolean" /\ v.num # 0
    \/ v.type = "string" /\ v.str # ""

\* a || b
Or(a, b) == IF Truthy(a) THEN a ELSE b

\* new Date(ms) and Date.prototype.toISOString
Date(ms) == [ms |-> ms]
ToISOString(d) == [iso |-> d.ms]
ParseDate(s) == [ms |-> s.iso]

----------------------------------------------------------------------------
(* Sequence helpers (Array.prototype.filter is SelectSeq)                  *)

Range(s) == {s[i] : i \in 1..Len(s)}

Ids(s) == {s[i].id : i \in 1..Len(s)}

\* the elements of a set of integers as a sequence in increasing order
RECURSIVE SortedSeq(_)
SortedSeq(S) ==
    IF S = {} THEN <<>>
    ELSE LET m == CHOOSE x \in S : \A y \in S : x <= y
         IN  <<m>> \o SortedSeq(S \ {m})

\* each element of s occurs once
NoDup(s) == \A i, j \in 1..Len(s) : s[i] = s[j] => i = j

----------------------------------------------------------------------------
(* The browser: tabs, native tab groups and the answers to chrome queries  *)

\* a chrome.tabs.Tab as a query returns it
TabObj(t) ==
    [id |-> t, windowId |-> WindowOf(t), groupId |-> btabs[t].groupId,
     title |-> btabs[t].title, url |-> btabs[t].url]

\* a chrome.tabGroups.TabGroup as a query returns it
GroupObj(g) ==
    [id |-> g, title |-> bgroups[g].title, color |-> bgroups[g].color,
     collapsed |-> bgroups[g].collapsed]

OpenTabs == {t \in Tabs : btabs[t].status = "open"}
LiveGroups == {g \in Groups : bgroups[g].status = "live"}
MembersOf(g) == {t \in OpenTabs : btabs[t].groupId = g}

\* chrome.tabs.query({ currentWindow: true })
QueryCurrentWindow == [i \in 1..Len(border) |-> TabObj(border[i])]

\* chrome.tabGroups.query({}): the groups of every window
QueryAllGroups ==
    LET ids == SortedSeq(LiveGroups)
    IN  [i \in 1..Len(ids) |-> GroupObj(ids[i])]

\* chrome.tabs.query({ groupId: g }): the group's tabs, whatever their window
QueryGroupTabs(g) ==
    LET ids == SortedSeq(MembersOf(g))
    IN  [i \in 1..Len(ids) |-> TabObj(ids[i])]

Ev(kind) == [kind |-> kind, groupId |-> FALSE, url |-> FALSE]
\* tabs.onUpdated with its changeInfo: which of groupId / url it carries
EvUpdated(groupId, url) == [kind |-> "tabUpdated", groupId |-> groupId, url |-> url]

\* a native group lives as long as it has a tab
GroupsAfter(tabs, grps) ==
    [g \in Groups |->
        IF grps[g].status = "live" /\ ~\E t \in Tabs : tabs[t].status = "open" /\ tabs[t].groupId = g
        THEN [grps[g] EXCEPT !.status = "gone"]
        ELSE grps[g]]

\* tabGroups.onRemoved for every group that the change emptied
RemovedEvents(grps) ==
    LET gone == SortedSeq({g \in Groups : bgroups[g].status = "live" /\ grps[g].status = "gone"})
    IN  [i \in 1..Len(gone) |-> Ev("groupRemoved")]

Changed(tabs, grps, strip, evs) ==
    /\ bver < MaxChanges
    /\ events = <<>>
    /\ btabs' = tabs
    /\ bgroups' = GroupsAfter(tabs, grps)
    /\ border' = strip
    /\ bver' = bver + 1
    /\ clock' = clock + 1
    /\ events' = events \o evs \o RemovedEvents(GroupsAfter(tabs, grps))

\* the user opens a tab in the current window
BrowserCreateTab(t) ==
    /\ btabs[t].status = "new"
    /\ Changed([btabs EXCEPT ![t].status = "open"], bgroups, Append(border, t),
               <<Ev("tabCreated")>>)

\* the user closes a tab of the current window
BrowserCloseTab(t) ==
    /\ btabs[t].status = "open"
    /\ WindowOf(t) = 1
    /\ Changed([btabs EXCEPT ![t].status = "closed"], bgroups,
               SelectSeq(border, LAMBDA x : x # t), <<Ev("tabRemoved")>>)

\* the user drags a tab into an existing group of its window
BrowserJoinGroup(t, g) ==
    /\ btabs[t].status = "open"
    /\ WindowOf(t) = 1
    /\ bgroups[g].status = "live"
    /\ btabs[t].groupId # g
    /\ \A m \in MembersOf(g) : WindowOf(m) = WindowOf(t)
    /\ Changed([btabs EXCEPT ![t].groupId = g], bgroups, border,
               <<EvUpdated(TRUE, FALSE)>>)

\* the user puts a tab into a new group, which gets the next group id
BrowserNewGroup(t, g) ==
    /\ btabs[t].status = "open"
    /\ WindowOf(t) = 1
    /\ bgroups[g].status = "new"
    /\ \A h \in Groups : h < g => bgroups[h].status # "new"
    /\ Changed([btabs EXCEPT ![t].groupId = g],
               [bgroups EXCEPT ![g] = [status |-> "live", title |-> "",
                                       color |-> "grey", collapsed |-> FALSE]],
               border, <<Ev("groupCreated"), EvUpdated(TRUE, FALSE)>>)

\* the user takes a tab out of its group
BrowserUngroup(t) ==
    /\ btabs[t].status = "open"
    /\ WindowOf(t) = 1
    /\ btabs[t].groupId # NoGroup
    /\ Changed([btabs EXCEPT ![t].groupId = NoGroup], bgroups, border,
               <<EvUpdated(TRUE, FALSE)>>)

\* the user renames, recolours, collapses or expands a group
BrowserUpdateGroup(g, what) ==
    /\ bgroups[g].status = "live"
    /\ \E t \in MembersOf(g) : WindowOf(t) = 1
    /\ Changed(btabs,
               CASE what = "title" ->
                      [bgroups EXCEPT ![g].title = IF @ = "" THEN "Work" ELSE ""]
                 [] what = "color" ->
                      [bgroups EXCEPT ![g].color = IF @ = "grey" THEN "blue" ELSE "grey"]
                 [] OTHER ->
                      [bgroups EXCEPT ![g].collapsed = ~@],
               border, <<Ev("groupUpdated")>>)

\* a page changes its title: tabs.onUpdated carries neither groupId nor url
BrowserRetitle(t) ==
    /\ btabs[t].status = "open"
    /\ WindowOf(t) = 1
    /\ Changed([btabs EXCEPT ![t].title = IF @ = "a" THEN "b" ELSE "a"], bgroups, border,
               <<EvUpdated(FALSE, FALSE)>>)

\* a tab navigates: tabs.onUpdated carries the url
BrowserNavigate(t) ==
    /\ btabs[t].status = "open"
    /\ WindowOf(t) = 1
    /\ Changed([btabs EXCEPT ![t].url = IF @ = "u" THEN "v" ELSE "u"], bgroups, border,
               <<EvUpdated(FALSE, TRUE)>>)

BrowserInit ==
    /\ btabs = [t \in Tabs |->
                  [status  |-> IF t = 3 THEN "new" ELSE "open",
                   groupId |-> IF t = 1 THEN 1 ELSE IF t = 4 THEN 2 ELSE NoGroup,
                   title   |-> "a", url |-> "u"]]
    /\ bgroups = [g \in Groups |->
                  [status |-> IF g = 3 THEN "new" ELSE "live",
                   title |-> IF g = 1 THEN "Work" ELSE "", color |-> "grey",
                   collapsed |-> FALSE]]
    /\ border = <<1, 2>>
    /\ bver = 0
    /\ events = <<>>

----------------------------------------------------------------------------
(* tabStorage: the persisted TabState                                      *)

InitialState ==
    [groups |-> <<>>, activeGroupId |-> Null, lastSync |-> Date(0),
     ungroupedTabs |-> <<>>, currentWindow |-> Null]

\* the tab ids held by the groups of a TabState, and by its ungrouped list
GroupedIds(s) == UNION {Ids(s.groups[i].tabs) : i \in 1..Len(s.groups)}
UngroupedIds(s) == Ids(s.ungroupedTabs)

\* in how many places of a TabState tab id t is held
Places(s, t) ==
    LET inGroup(i) == Cardinality({j \in 1..Len(s.groups[i].tabs) : s.groups[i].tabs[j].id = t})
        RECURSIVE sum(_)
        sum(i) == IF i = 0 THEN 0 ELSE inGroup(i) + sum(i - 1)
    IN  sum(Len(s.groups))
        + Cardinality({j \in 1..Len(s.ungroupedTabs) : s.ungroupedTabs[j].id = t})

\* a storage that would merge a write into the prior document instead
StorageSetMerging(prior, value) ==
    [value EXCEPT !.activeGroupId = prior.activeGroupId,
                  !.ungroupedTabs = prior.ungroupedTabs \o
                      SelectSeq(value.ungroupedTabs,
                                LAMBDA tab : tab.id \notin Ids(prior.ungroupedTabs))]

\* tabStorage.set(value) with a whole TabState: the document is replaced
StorageSet(prior, value) == value

----------------------------------------------------------------------------
(* serialization.serialize / safeParse                                     *)

\* JSON.stringify drops a field whose value is undefined and JSON.parse leaves
\* it absent, which reads as undefined again: an Undef field stands for both.
\* Everything else in a TabState is plain JSON data, except the Dates.
NoText == [empty |-> TRUE, json |-> InitialState]
\* nothing read back yet
NotRead == [read |-> FALSE, state |-> InitialState]
JsonText(doc) == [empty |-> FALSE, json |-> doc]

\* Date.prototype.toISOString throws a RangeError on an invalid Date
ValidDate(d) == d.ms >= 0

SerializedGroup(group) ==
    [group EXCEPT !.created = ToISOString(group.created),
                  !.lastModified = ToISOString(group.lastModified)]

SerializedState(s) ==
    [groups |-> [i \in 1..Len(s.groups) |-> SerializedGroup(s.groups[i])],
     activeGroupId |-> s.activeGroupId,
     lastSync |-> ToISOString(s.lastSync),
     ungroupedTabs |-> s.ungroupedTabs,
     currentWindow |-> s.currentWindow]

\* serialization.serialize, its catch included
Serialize(s) ==
    IF /\ ValidDate(s.lastSync)
       /\ \A i \in 1..Len(s.groups) :
             ValidDate(s.groups[i].created) /\ ValidDate(s.groups[i].lastModified)
    THEN JsonText(SerializedState(s))
    ELSE JsonText(SerializedState(InitialState))

ParsedGroup(group) ==
    [group EXCEPT !.created = ParseDate(group.created),
                  !.lastModified = ParseDate(group.lastModified)]

\* parsed.activeGroupId || null, parsed.currentWindow || null
OrNull(v) == Or(v, Null)

\* safeParse, which is serialization.deserialize
SafeParse(text) ==
    IF text.empty THEN InitialState
    ELSE LET parsed == text.json
         IN  [groups |-> [i \in 1..Len(parsed.groups) |-> ParsedGroup(parsed.groups[i])],
              activeGroupId |-> OrNull(parsed.activeGroupId),
              lastSync |-> ParseDate(parsed.lastSync),
              ungroupedTabs |-> parsed.ungroupedTabs,
              currentWindow |-> OrNull(parsed.currentWindow)]

Deserialize(text) == SafeParse(text)

----------------------------------------------------------------------------
(* tabStorage mutations: each awaits baseStorage.get(), then baseStorage.set *)

\* the properties a caller may name in an update, none of them named
NoUpdates ==
    [name |-> Absent, color |-> Absent, collapsed |-> Absent, summary |-> Absent,
     tabs |-> Absent]

\* an array given as the value of a property of updates
Arr(items) == [type |-> "array", items |-> items]

\* cur is the document the mutation's get returned, base the document its set replaced
IdleOp == [pc |-> "idle", kind |-> "none", groupId |-> 0, tabs |-> <<>>, tabId |-> 0,
           active |-> Null, updates |-> NoUpdates, cur |-> InitialState,
           base |-> InitialState]

\* slots for context operations that overlap
LoadIds == {1, 2}

\* no context operation is in flight and none was started
NoneRunning == [slot |-> [o \in LoadIds |-> [script |-> <<>>, pc |-> 0]], started |-> 0]

\* the results object of the incremental provider's refreshTabs:
\* { tabs: null, groups: null, error: null }, and the tabs its query returned
NoResults ==
    [tabs |-> [got |-> FALSE, items |-> <<>>], groups |-> [got |-> FALSE, items |-> <<>>],
     error |-> [tabs |-> FALSE, groups |-> FALSE], queried |-> <<>>]

\* No provider operation has run.  todo are the awaited calls still to make,
\* calls counts the calls made, store0 is the document when the operation began.
NoOperation ==
    [kind |-> "none", todo |-> <<>>, calls |-> 0, failed |-> "", settled |-> "",
     groupId |-> 0, chromeGroupId |-> 0, tabIds |-> <<>>,
     properties |-> [title |-> Absent, color |-> Absent, collapsed |-> Absent],
     index |-> 0, native |-> 0, debugValue |-> "", store0 |-> InitialState,
     groups0 |-> <<>>, n |-> 0, results |-> NoResults,
     early |-> [kind |-> "", groupId |-> 0, at |-> 0],
     auto |-> [tabs |-> <<>>, suggestions |-> <<>>, i |-> 0, made |-> <<>>, refused |-> {}]]

\* a tab object as a caller hands it to tabStorage
TabOf(t) == [id |-> t, windowId |-> 1, groupId |-> NoGroup, title |-> "a", url |-> "u"]

\* tabStorage.addGroup
AddGroup(cur, group, now) ==
    LET newUngroupedTabs ==
            SelectSeq(cur.ungroupedTabs,
                      LAMBDA tab : ~\E i \in 1..Len(group.tabs) : group.tabs[i].id = tab.id)
    IN  [cur EXCEPT !.groups = Append(@, [group EXCEPT !.created = Date(now),
                                                       !.lastModified = Date(now)]),
                    !.ungroupedTabs = newUngroupedTabs,
                    !.lastSync = Date(now)]

\* currentState.groups.find(g => g.id === groupId)
FindGroup(cur, groupId) ==
    LET hits == {i \in 1..Len(cur.groups) : cur.groups[i].id = groupId}
    IN  IF hits = {} THEN 0 ELSE CHOOSE i \in hits : \A j \in hits : i <= j

\* a removeGroup that would drop the removed group's tabs instead of moving them
RemoveGroupDroppingTabs(cur, groupId, now) ==
    [cur EXCEPT !.groups = SelectSeq(@, LAMBDA g : g.id # groupId),
                !.activeGroupId = IF @ = Num(groupId) THEN Null ELSE @,
                !.lastSync = Date(now)]

\* tabStorage.removeGroup
RemoveGroup(cur, groupId, now) ==
    LET groupToRemove == FindGroup(cur, groupId)
        newUngroupedTabs ==
            IF groupToRemove # 0
            THEN cur.ungroupedTabs \o cur.groups[groupToRemove].tabs
            ELSE cur.ungroupedTabs
    IN  [cur EXCEPT !.groups = SelectSeq(@, LAMBDA g : g.id # groupId),
                    !.activeGroupId = IF @ = Num(groupId) THEN Null ELSE @,
                    !.ungroupedTabs = newUngroupedTabs,
                    !.lastSync = Date(now)]

\* tabStorage.setActiveGroup
SetActiveGroup(cur, groupId, now) ==
    [cur EXCEPT !.activeGroupId = groupId, !.lastSync = Date(now)]

\* tabStorage.addUngroupedTab
AddUngroupedTab(cur, tab, now) ==
    [cur EXCEPT !.ungroupedTabs = Append(@, tab), !.lastSync = Date(now)]

\* { ...group, ...updates }: every property that updates has replaces the
\* group's, a property whose value is undefined included
Spread(group, updates) ==
    [group EXCEPT !.name = IF updates.name = Absent THEN @ ELSE updates.name,
                  !.color = IF updates.color = Absent THEN @ ELSE updates.color,
                  !.collapsed = IF updates.collapsed = Absent THEN @ ELSE updates.collapsed,
                  !.summary = IF updates.summary = Absent THEN @ ELSE updates.summary,
                  !.tabs = IF updates.tabs = Absent THEN @ ELSE updates.tabs.items]

\* groups.map(group => group.id === groupId ? f(group) : group)
MapGroup(groups, groupId, f(_)) ==
    [i \in 1..Len(groups) |-> IF groups[i].id = groupId THEN f(groups[i]) ELSE groups[i]]

\* tabStorage.updateGroup
UpdateGroup(cur, groupId, updates, now) ==
    LET updated(group) == [Spread(group, updates) EXCEPT !.lastModified = Date(now)]
    IN  [cur EXCEPT !.groups = MapGroup(@, groupId, updated), !.lastSync = Date(now)]

\* tabStorage.addTabsToGroup
AddTabsToGroup(cur, groupId, tabs, now) ==
    LET newUngroupedTabs ==
            SelectSeq(cur.ungroupedTabs,
                      LAMBDA tab : ~\E i \in 1..Len(tabs) : tabs[i].id = tab.id)
        added(group) == [group EXCEPT !.tabs = @ \o tabs, !.lastModified = Date(now)]
    IN  [cur EXCEPT !.groups = MapGroup(@, groupId, added),
                    !.ungroupedTabs = newUngroupedTabs,
                    !.lastSync = Date(now)]

\* a removeTabFromGroup that would take the tab out of the group and keep it nowhere
RemoveTabFromGroupDropping(cur, groupId, tabId, now) ==
    LET removed(group) == [group EXCEPT !.tabs = SelectSeq(@, LAMBDA tab : tab.id # tabId),
                                        !.lastModified = Date(now)]
    IN  [cur EXCEPT !.groups = MapGroup(@, groupId, removed),
                    !.lastSync = Date(now)]

\* tabStorage.removeTabFromGroup
RemoveTabFromGroup(cur, groupId, tabId, now) ==
    LET g == FindGroup(cur, groupId)
        found == IF g = 0 THEN <<>>
                 ELSE SelectSeq(cur.groups[g].tabs, LAMBDA t : t.id = tabId)
        newUngroupedTabs ==
            IF found # <<>> THEN Append(cur.ungroupedTabs, found[1]) ELSE cur.ungroupedTabs
        removed(group) == [group EXCEPT !.tabs = SelectSeq(@, LAMBDA tab : tab.id # tabId),
                                        !.lastModified = Date(now)]
    IN  [cur EXCEPT !.groups = MapGroup(@, groupId, removed),
                    !.ungroupedTabs = newUngroupedTabs,
                    !.lastSync = Date(now)]

\* tabStorage.updateUngroupedTabs
UpdateUngroupedTabs(cur, tabs, now) ==
    [cur EXCEPT !.ungroupedTabs = tabs, !.lastSync = Date(now)]

\* tabStorage.removeUngroupedTab
RemoveUngroupedTab(cur, tabId, now) ==
    [cur EXCEPT !.ungroupedTabs = SelectSeq(@, LAMBDA tab : tab.id # tabId),
                !.lastSync = Date(now)]

\* tabStorage.setCurrentWindow
SetCurrentWindow(cur, windowId, now) ==
    [cur EXCEPT !.currentWindow = windowId, !.lastSync = Date(now)]

\* tabStorage.syncWithCurrentTabs
SyncWithCurrentTabs(cur, currentTabs, now) ==
    LET groupedTabIds == UNION {Ids(cur.groups[i].tabs) : i \in 1..Len(cur.groups)}
    IN  [cur EXCEPT !.ungroupedTabs =
                        SelectSeq(currentTabs, LAMBDA tab : tab.id \notin groupedTabIds),
                    !.lastSync = Date(now)]

\* what a mutation hands to baseStorage.set, from the state its get returned
Mutated(op, now) ==
    CASE op.kind = "addGroup" ->
            AddGroup(op.cur,
                     [id |-> op.groupId, name |-> Str("Group"), tabs |-> op.tabs,
                      category |-> "Uncategorized", summary |-> Undef,
                      created |-> Date(0), lastModified |-> Date(0),
                      chromeGroupId |-> op.groupId, color |-> Str("blue"),
                      collapsed |-> Bool(FALSE)],
                     now)
      [] op.kind = "removeGroup" -> RemoveGroup(op.cur, op.groupId, now)
      [] op.kind = "setActiveGroup" -> SetActiveGroup(op.cur, op.active, now)
      [] op.kind = "addUngroupedTab" -> AddUngroupedTab(op.cur, op.tabs[1], now)
      [] op.kind = "updateGroup" -> UpdateGroup(op.cur, op.groupId, op.updates, now)
      [] op.kind = "addTabsToGroup" -> AddTabsToGroup(op.cur, op.groupId, op.tabs, now)
      [] op.kind = "removeTabFromGroup" ->
            RemoveTabFromGroup(op.cur, op.groupId, op.tabId, now)
      [] op.kind = "updateUngroupedTabs" -> UpdateUngroupedTabs(op.cur, op.tabs, now)
      [] op.kind = "removeUngroupedTab" -> RemoveUngroupedTab(op.cur, op.tabId, now)
      [] op.kind = "setCurrentWindow" -> SetCurrentWindow(op.cur, op.active, now)
      [] op.kind = "syncWithCurrentTabs" -> SyncWithCurrentTabs(op.cur, op.tabs, now)
      [] OTHER -> op.cur

\* a mutation is called; its await baseStorage.get() returns the document
Called(o, request) ==
    /\ nops < MaxOps
    /\ ops[o].pc = "idle"
    /\ ops' = [ops EXCEPT ![o] = [request EXCEPT !.pc = "got", !.cur = store]]
    /\ nops' = nops + 1
    /\ UNCHANGED <<browserVars, syncVars, store, clock, serVars, lastOp, prevOp, uop, running>>

\* group ids are unique: a caller adds a group under an id that is not in use
IdInUse(g) ==
    \/ g \in {store.groups[i].id : i \in 1..Len(store.groups)}
    \/ \E o \in OpIds : ops[o].pc = "got" /\ ops[o].kind = "addGroup" /\ ops[o].groupId = g

\* the tab lists a caller may hand over
TabLists == {<<>>, <<TabOf(1)>>, <<TabOf(2)>>, <<TabOf(1), TabOf(2)>>}

CallAddGroup ==
    \E o \in OpIds, g \in {1, 2}, tabs \in TabLists :
        /\ ~IdInUse(g)
        /\ Called(o, [IdleOp EXCEPT !.kind = "addGroup", !.groupId = g, !.tabs = tabs])

CallRemoveGroup ==
    \E o \in OpIds, g \in {1, 2} :
        Called(o, [IdleOp EXCEPT !.kind = "removeGroup", !.groupId = g])

CallSetActiveGroup ==
    \E o \in OpIds, a \in {Null, Num(1), Num(2)} :
        Called(o, [IdleOp EXCEPT !.kind = "setActiveGroup", !.active = a])

CallAddUngroupedTab ==
    \E o \in OpIds, t \in {1, 2} :
        /\ t \notin Ids(store.ungroupedTabs)
        /\ Called(o, [IdleOp EXCEPT !.kind = "addUngroupedTab", !.tabs = <<TabOf(t)>>])

\* updateChromeGroup's argument to tabStorage.updateGroup:
\* { color: properties.color, collapsed: properties.collapsed, name: properties.title }
UpdatesFromProperties(properties) ==
    LET read(v) == IF v = Absent THEN Undef ELSE v
    IN  [NoUpdates EXCEPT !.color = read(properties.color),
                          !.collapsed = read(properties.collapsed),
                          !.name = read(properties.title)]

\* chrome.tabGroups.UpdateProperties with nothing named
NoProperties == [title |-> Absent, color |-> Absent, collapsed |-> Absent]

\* the properties that collapseGroup, setGroupColor and setGroupTitle pass
PropertiesGiven ==
    {[NoProperties EXCEPT !.collapsed = Bool(TRUE)],
     [NoProperties EXCEPT !.color = Str("red")],
     [NoProperties EXCEPT !.title = Str("Mail")]}

\* updateChromeGroup: storageGroup = tabGroups.find(g => g.chromeGroupId === groupId),
\* then tabStorage.updateGroup; and generateGroupSummary's updateGroup(groupId, { summary })
CallUpdateGroup ==
    \E o \in OpIds, g \in {1, 2} :
        /\ \E i \in 1..Len(store.groups) : store.groups[i].id = g
        /\ \/ \E properties \in PropertiesGiven :
                 Called(o, [IdleOp EXCEPT !.kind = "updateGroup", !.groupId = g,
                                          !.updates = UpdatesFromProperties(properties)])
           \/ Called(o, [IdleOp EXCEPT !.kind = "updateGroup", !.groupId = g,
                                       !.updates = [NoUpdates EXCEPT !.summary = Str("sum")]])

CallAddTabsToGroup ==
    \E o \in OpIds, g \in {1, 2}, t \in {2, 3} :
        Called(o, [IdleOp EXCEPT !.kind = "addTabsToGroup", !.groupId = g,
                                 !.tabs = <<TabOf(t)>>])

CallRemoveTabFromGroup ==
    \E o \in OpIds, g \in {1, 2}, t \in {1, 2} :
        Called(o, [IdleOp EXCEPT !.kind = "removeTabFromGroup", !.groupId = g, !.tabId = t])

CallUpdateUngroupedTabs ==
    \E o \in OpIds, tabs \in {<<>>, <<TabOf(2)>>} :
        Called(o, [IdleOp EXCEPT !.kind = "updateUngroupedTabs", !.tabs = tabs])

CallRemoveUngroupedTab ==
    \E o \in OpIds, t \in {1, 2} :
        Called(o, [IdleOp EXCEPT !.kind = "removeUngroupedTab", !.tabId = t])

CallSetCurrentWindow ==
    \E o \in OpIds :
        Called(o, [IdleOp EXCEPT !.kind = "setCurrentWindow", !.active = Num(1)])

\* syncWithCurrentTabs(tabs) with the tabs of the window: tab 1 may have been closed
CallSyncWithCurrentTabs ==
    \E o \in OpIds, tabs \in {<<TabOf(1), TabOf(2)>>, <<TabOf(2)>>} :
        Called(o, [IdleOp EXCEPT !.kind = "syncWithCurrentTabs", !.tabs = tabs])

\* the mutation's await baseStorage.set(...) takes effect
StorageWritten ==
    \E o \in OpIds :
        /\ ops[o].pc = "got"
        /\ ops[o].kind # "syncTabStates"
        /\ store' = StorageSet(store, Mutated(ops[o], clock))
        /\ lastOp' = [ops[o] EXCEPT !.base = store]
        /\ prevOp' = lastOp
        /\ ops' = [ops EXCEPT ![o] = IdleOp]
        /\ UNCHANGED <<browserVars, syncVars, clock, serVars, nops, uop, running>>

----------------------------------------------------------------------------
(* syncTabStates: the reconciliation pass                                  *)

\* groupTabs.forEach(tab => { if (tab.id) tabGroupMap.set(tab.id, group.id) })
MapSetAll(map, groupTabs, gid) ==
    LET ids == {groupTabs[i].id : i \in {j \in 1..Len(groupTabs) : groupTabs[j].id # 0}}
    IN  [t \in (DOMAIN map) \cup ids |-> IF t \in ids THEN gid ELSE map[t]]

\* a filter that would trust tab.groupId of the tab list instead of the map
GroupTabsOfAnyMember(currentTabs, map, gid) ==
    SelectSeq(currentTabs, LAMBDA tab : tab.id # 0 /\ tab.groupId = gid)

\* currentTabs.filter(tab => tab.id && tabGroupMap.get(tab.id) === chromeGroup.id)
GroupTabsOf(currentTabs, map, gid) ==
    SelectSeq(currentTabs,
              LAMBDA tab : tab.id # 0 /\ tab.id \in DOMAIN map /\ map[tab.id] = gid)

\* the TabGroup pushed for a native group
MakeGroup(chromeGroup, groupTabs, now) ==
    [id |-> chromeGroup.id,
     name |-> Or(Str(chromeGroup.title), Str("Unnamed Group")),
     tabs |-> groupTabs,
     category |-> "Uncategorized",
     summary |-> Undef,
     created |-> Date(now),
     lastModified |-> Date(now),
     chromeGroupId |-> chromeGroup.id,
     color |-> Str(chromeGroup.color),
     collapsed |-> Bool(chromeGroup.collapsed)]

\* a rebuild that would also push the groups without a tab in the window
RECURSIVE NewGroupsAll(_, _, _, _)
NewGroupsAll(currentTabs, chromeGroups, map, now) ==
    IF chromeGroups = <<>> THEN <<>>
    ELSE <<MakeGroup(Head(chromeGroups), GroupTabsOf(currentTabs, map, Head(chromeGroups).id), now)>>
         \o NewGroupsAll(currentTabs, Tail(chromeGroups), map, now)

\* for (const chromeGroup of chromeGroups) { ... if (groupTabs.length > 0) newGroups.push(...) }
RECURSIVE NewGroups(_, _, _, _)
NewGroups(currentTabs, chromeGroups, map, now) ==
    IF chromeGroups = <<>> THEN <<>>
    ELSE LET groupTabs == GroupTabsOf(currentTabs, map, Head(chromeGroups).id)
         IN  (IF Len(groupTabs) > 0
              THEN <<MakeGroup(Head(chromeGroups), groupTabs, now)>>
              ELSE <<>>)
             \o NewGroups(currentTabs, Tail(chromeGroups), map, now)

\* a filter that would read tab.groupId instead of the map
UngroupedByTabField(currentTabs, map) ==
    SelectSeq(currentTabs, LAMBDA tab : tab.id # 0 /\ tab.groupId = NoGroup)

\* currentTabs.filter(tab => tab.id && !tabGroupMap.has(tab.id))
UngroupedOf(currentTabs, map) ==
    SelectSeq(currentTabs, LAMBDA tab : tab.id # 0 /\ tab.id \notin DOMAIN map)

\* a pass that would make its first group the active one
SyncStateActivating(currentTabs, chromeGroups, map, now) ==
    LET newGroups == NewGroups(currentTabs, chromeGroups, map, now)
    IN  [groups |-> newGroups,
         activeGroupId |-> IF newGroups = <<>> THEN Null ELSE Num(newGroups[1].id),
         lastSync |-> Date(now),
         ungroupedTabs |-> UngroupedOf(currentTabs, map),
         currentWindow |-> IF currentTabs = <<>> THEN Null
                           ELSE Or(Num(currentTabs[1].windowId), Null)]

\* the object handed to tabStorage.set
SyncState(currentTabs, chromeGroups, map, now) ==
    [groups |-> NewGroups(currentTabs, chromeGroups, map, now),
     activeGroupId |-> Null,
     lastSync |-> Date(now),
     ungroupedTabs |-> UngroupedOf(currentTabs, map),
     currentWindow |-> IF Len(currentTabs) = 0 THEN Null
                       ELSE Or(Num(currentTabs[1].windowId), Null)]

IdlePass ==
    [pc |-> "idle", currentTabs |-> <<>>, chromeGroups |-> <<>>, i |-> 0,
     tabGroupMap |-> <<>>, out |-> InitialState, vers |-> {}, overlapped |-> FALSE]

InFlight == {p \in PassIds : pass[p].pc # "idle"}

\* refreshTabs is called: setState(isLoading: true), then syncTabStates starts
RefreshTabs ==
    /\ \E p \in PassIds :
        /\ pass[p].pc = "idle"
        /\ \A q \in PassIds : q < p => pass[q].pc # "idle"
        /\ pass' = [q \in PassIds |->
                      IF q = p THEN [IdlePass EXCEPT !.pc = "qTabs",
                                                     !.overlapped = InFlight # {}]
                      ELSE IF pass[q].pc # "idle" THEN [pass[q] EXCEPT !.overlapped = TRUE]
                      ELSE pass[q]]
    /\ state' = [state EXCEPT !.isLoading = TRUE]

\* const currentTabs = await chrome.tabs.query({ currentWindow: true })
QueryTabs(p) ==
    /\ pass[p].pc = "qTabs"
    /\ pass' = [pass EXCEPT ![p].currentTabs = QueryCurrentWindow,
                            ![p].vers = {bver},
                            ![p].pc = "qGroups"]
    /\ UNCHANGED <<browserVars, events, state, store, store2, clock, hist, failed, serVars, opVars>>

\* after the last query: build newGroups and ungroupedTabs, call tabStorage.set
Built(r, now) ==
    [r EXCEPT !.out = SyncState(r.currentTabs, r.chromeGroups, r.tabGroupMap, now),
              !.pc = "write"]

\* const chromeGroups = await chrome.tabGroups.query({})
QueryGroups(p) ==
    /\ pass[p].pc = "qGroups"
    /\ LET r == [pass[p] EXCEPT !.chromeGroups = QueryAllGroups,
                                !.vers = @ \cup {bver},
                                !.i = 1]
       IN  pass' = [pass EXCEPT ![p] = IF Len(r.chromeGroups) = 0
                                       THEN Built(r, clock)
                                       ELSE [r EXCEPT !.pc = "qMembers"]]
    /\ UNCHANGED <<browserVars, events, state, store, store2, clock, hist, failed, serVars, opVars>>

\* const groupTabs = await chrome.tabs.query({ groupId: group.id }), for one group
QueryMembers(p) ==
    /\ pass[p].pc = "qMembers"
    /\ LET gid == pass[p].chromeGroups[pass[p].i].id
           r == [pass[p] EXCEPT !.tabGroupMap = MapSetAll(@, QueryGroupTabs(gid), gid),
                                !.vers = @ \cup {bver},
                                !.i = @ + 1]
       IN  pass' = [pass EXCEPT ![p] = IF pass[p].i = Len(pass[p].chromeGroups)
                                       THEN Built(r, clock)
                                       ELSE r]
    /\ UNCHANGED <<browserVars, events, state, store, store2, clock, hist, failed, serVars, opVars>>

\* await tabStorage.set({...}) takes effect
WriteState(p) ==
    /\ pass[p].pc = "write"
    /\ store' = StorageSet(store, pass[p].out)
    /\ store2' = StorageSet(store2, pass[p].out)
    /\ hist' = pass[p]
    /\ pass' = [pass EXCEPT ![p].pc = "finish"]
    /\ UNCHANGED <<browserVars, events, state, clock, failed, serVars, opVars>>

\* refreshTabs after syncTabStates returned: setState(currentTabs, chromeGroups, ...)
FinishPass(p) ==
    /\ pass[p].pc = "finish"
    /\ state' = [state EXCEPT !.currentTabs = pass[p].currentTabs,
                              !.currentChromeGroups = pass[p].chromeGroups,
                              !.error = FALSE,
                              !.isLoading = FALSE]
    /\ pass' = [pass EXCEPT ![p] = IdlePass]
    /\ UNCHANGED <<browserVars, events, store, store2, clock, hist, failed, serVars, opVars>>

\* a catch that would leave the context as it was
FailPassSilently(p) ==
    /\ pass[p].pc \in {"qTabs", "qGroups", "qMembers", "write"}
    /\ pass' = [pass EXCEPT ![p] = IdlePass]
    /\ failed' = pass[p].pc
    /\ UNCHANGED <<browserVars, events, state, store, store2, clock, hist, serVars, opVars>>

\* a browser query or the write rejects: refreshTabs' catch
FailPass(p) ==
    /\ pass[p].pc \in {"qTabs", "qGroups", "qMembers", "write"}
    /\ state' = [state EXCEPT !.error = TRUE, !.isLoading = FALSE]
    /\ pass' = [pass EXCEPT ![p] = IdlePass]
    /\ failed' = pass[p].pc
    /\ UNCHANGED <<browserVars, events, store, store2, clock, hist, serVars, opVars>>

----------------------------------------------------------------------------
(* The listeners registered by TabContextProvider                          *)

Delivered(kind) ==
    /\ events # <<>>
    /\ Head(events).kind = kind
    /\ events' = Tail(events)
    /\ UNCHANGED <<browserVars, store, store2, clock, hist, failed, serVars, opVars>>

HandleTabCreated ==
    /\ Delivered("tabCreated")
    /\ RefreshTabs

\* a handler that would sync on every tabs.onUpdated
SyncsOnAnyUpdate(changeInfo) == TRUE

\* if (changeInfo.groupId !== undefined || changeInfo.url !== undefined)
SyncsOn(changeInfo) == changeInfo.groupId \/ changeInfo.url

HandleTabUpdated ==
    /\ Delivered("tabUpdated")
    /\ IF SyncsOn(Head(events))
       THEN RefreshTabs
       ELSE UNCHANGED <<pass, state>>

HandleTabRemoved ==
    /\ Delivered("tabRemoved")
    /\ RefreshTabs

HandleGroupChanged ==
    /\ \/ Delivered("groupCreated")
       \/ Delivered("groupUpdated")
       \/ Delivered("groupRemoved")
    /\ RefreshTabs

----------------------------------------------------------------------------
(* The provider in a browser                                               *)

\* persisted documents that a previous session may have left behind
PriorStates ==
    {[InitialState EXCEPT !.activeGroupId = Num(1),
                          !.ungroupedTabs = <<[id |-> 2, windowId |-> 1, groupId |-> NoGroup,
                                               title |-> "a", url |-> "u"],
                                              [id |-> 9, windowId |-> 1, groupId |-> NoGroup,
                                               title |-> "a", url |-> "u"]>>],
     [InitialState EXCEPT !.groups = <<MakeGroup([id |-> 7, title |-> "Old", color |-> "red",
                                                  collapsed |-> TRUE],
                                                 <<[id |-> 1, windowId |-> 1, groupId |-> 7,
                                                    title |-> "a", url |-> "u"]>>, 0)>>,
                          !.currentWindow = Num(5)]}

SerIdle ==
    /\ serIn = InitialState
    /\ serText = NoText
    /\ serOut = NotRead

OpsIdle ==
    /\ ops = [o \in OpIds |-> IdleOp]
    /\ nops = 0
    /\ lastOp = IdleOp
    /\ prevOp = IdleOp
    /\ uop = NoOperation
    /\ running = NoneRunning

\* the provider mounts: its mount effect has called refreshTabs
Init ==
    /\ BrowserInit
    /\ pass = [p \in PassIds |-> IF p = 1 THEN [IdlePass EXCEPT !.pc = "qTabs"] ELSE IdlePass]
    /\ state = [currentTabs |-> <<>>, currentChromeGroups |-> <<>>,
                isLoading |-> TRUE, error |-> FALSE]
    /\ store = InitialState
    /\ store2 \in PriorStates
    /\ clock = 1
    /\ hist = IdlePass
    /\ failed = "none"
    /\ SerIdle
    /\ OpsIdle

\* A listener runs as soon as its event is fired and a slot is free.  Delivering
\* the event later would only delay the pass's first query, and when a query is
\* answered is left open anyway.
Deliverable ==
    /\ events # <<>>
    /\ \/ \E p \in PassIds : pass[p].pc = "idle"
       \/ Head(events).kind = "tabUpdated" /\ ~SyncsOn(Head(events))

ProviderIdle == UNCHANGED <<pass, state, store, store2, hist, failed, serVars, opVars>>

UserCreatesTab == (\E t \in Tabs : BrowserCreateTab(t)) /\ ProviderIdle
UserClosesTab == (\E t \in Tabs : BrowserCloseTab(t)) /\ ProviderIdle
UserJoinsGroup == (\E t \in Tabs, g \in Groups : BrowserJoinGroup(t, g)) /\ ProviderIdle
UserNewGroup == (\E t \in Tabs, g \in Groups : BrowserNewGroup(t, g)) /\ ProviderIdle
UserUngroups == (\E t \in Tabs : BrowserUngroup(t)) /\ ProviderIdle
UserUpdatesGroup ==
    (\E g \in Groups, what \in {"title", "color", "collapsed"} : BrowserUpdateGroup(g, what))
    /\ ProviderIdle
PageRetitles == (\E t \in Tabs : BrowserRetitle(t)) /\ ProviderIdle
PageNavigates == (\E t \in Tabs : BrowserNavigate(t)) /\ ProviderIdle

TabsAnswered == ~Deliverable /\ \E p \in PassIds : QueryTabs(p)
GroupsAnswered == ~Deliverable /\ \E p \in PassIds : QueryGroups(p)
MembersAnswered == ~Deliverable /\ \E p \in PassIds : QueryMembers(p)
Written == ~Deliverable /\ \E p \in PassIds : WriteState(p)
Finished == ~Deliverable /\ \E p \in PassIds : FinishPass(p)
Rejected == ~Deliverable /\ \E p \in PassIds : FailPass(p)

Next ==
    \/ UserCreatesTab
    \/ UserClosesTab
    \/ UserJoinsGroup
    \/ UserNewGroup
    \/ UserUngroups
    \/ UserUpdatesGroup
    \/ PageRetitles
    \/ PageNavigates
    \/ HandleTabCreated
    \/ HandleTabUpdated
    \/ HandleTabRemoved
    \/ HandleGroupChanged
    \/ TabsAnswered
    \/ GroupsAnswered
    \/ MembersAnswered
    \/ Written
    \/ Finished

Spec == Init /\ [][Next]_vars

\* The provider with browser calls and writes that may be rejected, while tabs
\* are opened, closed and taken out of their group.
NextFail ==
    \/ UserCreatesTab
    \/ UserClosesTab
    \/ UserUngroups
    \/ HandleTabCreated
    \/ HandleTabUpdated
    \/ HandleTabRemoved
    \/ HandleGroupChanged
    \/ TabsAnswered
    \/ GroupsAnswered
    \/ MembersAnswered
    \/ Written
    \/ Finished
    \/ Rejected

SpecFail == Init /\ [][NextFail]_vars

----------------------------------------------------------------------------
(* Properties of the full-resync provider                                  *)

\* every event is delivered and every refreshTabs call has returned
Quiescent ==
    /\ events = <<>>
    /\ \A p \in PassIds : pass[p].pc = "idle"

\* the open tabs of the current window
WindowTabs == {t \in OpenTabs : WindowOf(t) = 1}

\* the native groups with a tab in the current window
WindowGroups == {g \in LiveGroups : \E t \in MembersOf(g) : WindowOf(t) = 1}

\* some pass has written the persisted state
Synced == hist.pc # "idle"

\* the last write was made by a pass all of whose queries saw the browser as it is now
SawCurrentBrowser == Synced /\ hist.vers = {bver}

GroupIds(s) == {s.groups[i].id : i \in 1..Len(s.groups)}

\* C1: once all events are delivered and every reconciliation pass has completed,
\* each open tab of the current window is held in exactly one place of the
\* persisted state (one group's tabs or ungroupedTabs, once).
C1_ExactlyOnePlace ==
    Quiescent => \A t \in WindowTabs : Places(store, t) = 1

\* C2: once a native group has disappeared and the resulting events have been
\* handled (no event is pending, no pass is running), no persisted group
\* references it and no persisted group still holds a tab on its behalf.
C2_GroupGoneWithNative ==
    Quiescent =>
        \A g \in Groups :
            bgroups[g].status = "gone" =>
                \A i \in 1..Len(store.groups) :
                    store.groups[i].chromeGroupId # g /\ store.groups[i].id # g

\* an event is taken from the queue by its listener
Delivery == events # <<>> /\ events' = Tail(events)

\* a refreshTabs call starts
PassStarts == \E p \in PassIds : pass[p].pc = "idle" /\ pass'[p].pc = "qTabs"

\* C5 as claimed: every delivered event starts a reconciliation pass.
C5_EveryEventSyncs == [][Delivery => PassStarts]_vars

\* C5: a tab-created, tab-removed or native-group event always starts a
\* reconciliation pass; a tab-updated event starts one exactly when its
\* changeInfo carries a groupId or a url.
C5_EventsThatSync ==
    [][Delivery =>
        (PassStarts <=> \/ Head(events).kind # "tabUpdated"
                        \/ Head(events).groupId
                        \/ Head(events).url)]_vars

\* a title-only tabs.onUpdated has been delivered and nothing is running
C5_Witness ==
    /\ Quiescent
    /\ bver = 1
    /\ \E t \in WindowTabs : btabs[t].title = "b"
    /\ Synced /\ hist.vers = {0}

\* C6: a reconciliation pass writes one persisted group for each native group
\* reported to it that has a tab of the current window, and for no other; the
\* group holds exactly those tabs, and its name, color and collapsed flag are
\* the native group's title ('Unnamed Group' for an empty title), color and
\* collapsed state.  For a pass whose queries all saw the browser as it still
\* is, these are the browser's groups, members and attributes.
C6_GroupsWritten ==
    Synced =>
        /\ GroupIds(store) \subseteq Ids(hist.chromeGroups)
        /\ Cardinality(GroupIds(store)) = Len(store.groups)
        /\ \A cg \in Range(hist.chromeGroups) :
              LET mine == {t \in Ids(hist.currentTabs) :
                              t \in DOMAIN hist.tabGroupMap /\ hist.tabGroupMap[t] = cg.id}
              IN  /\ cg.id \in GroupIds(store) <=> mine # {}
                  /\ \A i \in 1..Len(store.groups) :
                        store.groups[i].id = cg.id =>
                            /\ Ids(store.groups[i].tabs) = mine
                            /\ NoDup(store.groups[i].tabs)
                            /\ Range(store.groups[i].tabs) \subseteq Range(hist.currentTabs)
                            /\ store.groups[i].chromeGroupId = cg.id
                            /\ store.groups[i].name =
                                  Str(IF cg.title = "" THEN "Unnamed Group" ELSE cg.title)
                            /\ store.groups[i].color = Str(cg.color)
                            /\ store.groups[i].collapsed = Bool(cg.collapsed)
        /\ SawCurrentBrowser =>
              /\ GroupIds(store) = WindowGroups
              /\ \A i \in 1..Len(store.groups) :
                    LET g == store.groups[i].id
                    IN  /\ Range(store.groups[i].tabs) =
                              {TabObj(t) : t \in {m \in MembersOf(g) : WindowOf(m) = 1}}
                        /\ store.groups[i].name =
                              Str(IF bgroups[g].title = "" THEN "Unnamed Group" ELSE bgroups[g].title)
                        /\ store.groups[i].color = Str(bgroups[g].color)
                        /\ store.groups[i].collapsed = Bool(bgroups[g].collapsed)

\* a pass that saw the current browser wrote a group for the one native group of
\* the window, named after its title, and none for the other window's group
C6_Witness ==
    /\ SawCurrentBrowser
    /\ Len(store.groups) = 1
    /\ store.groups[1].name = Str("Work")
    /\ Cardinality(LiveGroups) = 2

\* C7: the ungroupedTabs that a reconciliation pass writes are exactly the tabs
\* of the current window, as reported to it, that have no entry in its
\* tab-id to group-id mapping.
C7_UngroupedWritten ==
    Synced =>
        /\ UngroupedIds(store) = Ids(hist.currentTabs) \ DOMAIN hist.tabGroupMap
        /\ NoDup(store.ungroupedTabs)
        /\ Range(store.ungroupedTabs) \subseteq Range(hist.currentTabs)

\* a pass wrote ungrouped tabs and left a mapped tab of the window out of them
C7_Witness ==
    /\ Synced
    /\ store.ungroupedTabs # <<>>
    /\ \E t \in Ids(hist.currentTabs) : t \in DOMAIN hist.tabGroupMap

\* C8: what a pass writes does not depend on the persisted state it replaces.
\* store and store2 start as different documents and receive the same writes:
\* after a write they are equal, and hold no group, tab, active group or window
\* other than what the browser reported to the writing pass.
C8_WriteIgnoresPrior ==
    Synced =>
        /\ store2 = store
        /\ GroupIds(store2) \subseteq Ids(hist.chromeGroups)
        /\ GroupedIds(store2) \cup UngroupedIds(store2) \subseteq Ids(hist.currentTabs)
        /\ store2.activeGroupId = Null
        /\ store2.currentWindow \in {Null} \cup {Num(hist.currentTabs[i].windowId) :
                                                 i \in 1..Len(hist.currentTabs)}

\* both documents were written, with groups and ungrouped tabs
C8_Witness ==
    /\ Synced
    /\ store2.groups # <<>>
    /\ store2.ungroupedTabs # <<>>

C10_SelfHealed ==
    Quiescent =>
        /\ GroupIds(store) = WindowGroups
        /\ \A i \in 1..Len(store.groups) :
              Ids(store.groups[i].tabs) =
                  {t \in WindowTabs : btabs[t].groupId = store.groups[i].id}
        /\ UngroupedIds(store) = {t \in WindowTabs : btabs[t].groupId = NoGroup}

----------------------------------------------------------------------------
(* tabStorage on its own: callers mutate the persisted document            *)

\* the document the extension finds in chrome.storage when it starts: nothing
\* saved yet, or what an earlier session left
StoredDocs ==
    {InitialState,
     [InitialState EXCEPT
        !.groups = <<[MakeGroup([id |-> 1, title |-> "Work", color |-> "grey",
                                 collapsed |-> FALSE], <<TabOf(1)>>, 0)
                      EXCEPT !.category = "Research", !.summary = Str("notes")]>>,
        !.ungroupedTabs = <<TabOf(2)>>,
        !.activeGroupId = Num(1)]}

StoreInit ==
    /\ BrowserInit
    /\ pass = [p \in PassIds |-> IdlePass]
    /\ state = [currentTabs |-> <<>>, currentChromeGroups |-> <<>>,
                isLoading |-> FALSE, error |-> FALSE]
    /\ store \in StoredDocs
    /\ store2 = InitialState
    /\ clock = 1
    /\ hist = IdlePass
    /\ failed = "none"
    /\ SerIdle
    /\ OpsIdle

\* a reconciliation pass, seen from storage: refreshTabs is called and the
\* browser, which does not change meanwhile, answers its queries ...
CallSyncTabStates ==
    \E o \in OpIds : Called(o, [IdleOp EXCEPT !.kind = "syncTabStates"])

\* the tabGroupMap of a pass whose member queries are all answered
RECURSIVE MapOfGroups(_)
MapOfGroups(chromeGroups) ==
    IF chromeGroups = <<>> THEN <<>>
    ELSE MapSetAll(MapOfGroups(SubSeq(chromeGroups, 1, Len(chromeGroups) - 1)),
                   QueryGroupTabs(chromeGroups[Len(chromeGroups)].id),
                   chromeGroups[Len(chromeGroups)].id)

\* ... and its await tabStorage.set(...) replaces the document
SyncWritten ==
    \E o \in OpIds :
        /\ ops[o].pc = "got"
        /\ ops[o].kind = "syncTabStates"
        /\ store' = StorageSet(store, SyncState(QueryCurrentWindow, QueryAllGroups,
                                                MapOfGroups(QueryAllGroups), clock))
        /\ lastOp' = [ops[o] EXCEPT !.base = store]
        /\ prevOp' = lastOp
        /\ ops' = [ops EXCEPT ![o] = IdleOp]
        /\ UNCHANGED <<browserVars, syncVars, clock, serVars, nops, uop, running>>

StoreNext ==
    \/ CallAddGroup
    \/ CallRemoveGroup
    \/ CallUpdateGroup
    \/ CallSetActiveGroup
    \/ CallAddTabsToGroup
    \/ CallRemoveTabFromGroup
    \/ CallUpdateUngroupedTabs
    \/ CallAddUngroupedTab
    \/ CallRemoveUngroupedTab
    \/ CallSetCurrentWindow
    \/ CallSyncWithCurrentTabs
    \/ CallSyncTabStates
    \/ StorageWritten
    \/ SyncWritten

SpecStore == StoreInit /\ [][StoreNext]_vars

\* C3: removeGroup on the id of a group that is there removes that group and no
\* other, puts every tab of the group into ungroupedTabs, and sets
\* activeGroupId to null exactly when it was the removed group's id; otherwise
\* activeGroupId stays as it was.
C3_RemoveGroup ==
    LET cur == lastOp.cur
        gid == lastOp.groupId
    IN  (lastOp.kind = "removeGroup" /\ FindGroup(cur, gid) # 0) =>
            /\ \A i \in 1..Len(store.groups) : store.groups[i].id # gid
            /\ store.groups = SelectSeq(cur.groups, LAMBDA g : g.id # gid)
            /\ Range(cur.groups[FindGroup(cur, gid)].tabs) \subseteq Range(store.ungroupedTabs)
            /\ Range(cur.ungroupedTabs) \subseteq Range(store.ungroupedTabs)
            /\ (store.activeGroupId = Null /\ cur.activeGroupId # Null)
                  <=> (cur.activeGroupId = Num(gid))
            /\ cur.activeGroupId # Num(gid) => store.activeGroupId = cur.activeGroupId

\* the active group, holding tabs, was removed while another group stayed
C3_Witness ==
    LET cur == lastOp.cur
        gid == lastOp.groupId
    IN  /\ lastOp.kind = "removeGroup"
        /\ FindGroup(cur, gid) # 0
        /\ cur.groups[FindGroup(cur, gid)].tabs # <<>>
        /\ cur.activeGroupId = Num(gid)
        /\ store.groups # <<>>
        /\ store.activeGroupId = Null

----------------------------------------------------------------------------
(* The serialisation round trip                                            *)

\* TabStates to serialise
SerGroups ==
    LET g1 == MakeGroup([id |-> 1, title |-> "Work", color |-> "blue", collapsed |-> TRUE],
                        <<TabOf(1)>>, 3)
        g2 == [MakeGroup([id |-> 2, title |-> "", color |-> "grey", collapsed |-> FALSE],
                         <<>>, 0)
               EXCEPT !.summary = Str("notes"), !.lastModified = Date(7)]
    IN  {<<>>, <<g1>>, <<g2>>, <<g1, g2>>}

SerStates ==
    [groups : SerGroups,
     activeGroupId : {Null, Str(""), Num(0), Num(1), Str("g")},
     lastSync : {Date(0), Date(5)},
     ungroupedTabs : {<<>>, <<TabOf(2)>>},
     currentWindow : {Null, Num(0), Num(1)}]

SerInit ==
    /\ BrowserInit
    /\ pass = [p \in PassIds |-> IdlePass]
    /\ state = [currentTabs |-> <<>>, currentChromeGroups |-> <<>>,
                isLoading |-> FALSE, error |-> FALSE]
    /\ store = InitialState
    /\ store2 = InitialState
    /\ clock = 1
    /\ hist = IdlePass
    /\ failed = "none"
    /\ serIn \in SerStates
    /\ serText = NoText
    /\ serOut = NotRead
    /\ OpsIdle

\* baseStorage writes the document: serialization.serialize
Serialized ==
    /\ serText = NoText
    /\ serText' = Serialize(serIn)
    /\ UNCHANGED <<browserVars, syncVars, store, clock, opVars, serIn, serOut>>

\* baseStorage reads it back: serialization.deserialize
Deserialized ==
    /\ serText # NoText
    /\ ~serOut.read
    /\ serOut' = [read |-> TRUE, state |-> Deserialize(serText)]
    /\ UNCHANGED <<browserVars, syncVars, store, clock, opVars, serIn, serText>>

SerNext == Serialized \/ Deserialized

SpecSer == SerInit /\ [][SerNext]_vars

\* C4: deserialize(serialize(s)) = s for every TabState s, the boundary values
\* currentWindow = 0, activeGroupId = "" and activeGroupId = 0 included.
C4_RoundTrip ==
    serOut.read => serOut.state = serIn


\* the mutations of tabStorage, as opposed to a reconciliation pass's write
IsMutation(op) == op.kind \notin {"none", "syncTabStates"}

\* mutation op applied to document doc
Applied(op, doc) == Mutated([op EXCEPT !.cur = doc], clock)

\* C11: when two tabStorage mutations run concurrently (both read the same
\* document, and both have written), the persisted state is what applying the
\* two one after the other, in one order or the other, gives.
C11_Atomic ==
    (/\ IsMutation(lastOp)
     /\ IsMutation(prevOp)
     /\ lastOp.cur = prevOp.cur
     /\ prevOp.base = prevOp.cur)
        => store \in {Applied(lastOp, Applied(prevOp, prevOp.cur)),
                      Applied(prevOp, Applied(lastOp, prevOp.cur))}


\* the steps of a pass that are browser queries
QuerySteps == {"qTabs", "qGroups", "qMembers"}

\* C13: a pass one of whose browser queries fails sets error, sets isLoading to
\* false, writes nothing (the step leaves the persisted state as it was, and
\* the pass had not reached its write) and leaves currentTabs and
\* currentChromeGroups as they were; a pass that succeeds sets error to null.
C13_FailedPass ==
    [][\A p \in PassIds :
          /\ (pass[p].pc \in QuerySteps /\ pass'[p].pc = "idle") =>
                /\ state'.error
                /\ ~state'.isLoading
                /\ store' = store
                /\ hist' = hist
                /\ state'.currentTabs = state.currentTabs
                /\ state'.currentChromeGroups = state.currentChromeGroups
          /\ (pass[p].pc = "finish" /\ pass'[p].pc = "idle") => ~state'.error]_vars

\* a query of a pass failed after an earlier pass had written and set the lists
C13_Witness ==
    /\ failed \in QuerySteps
    /\ state.error
    /\ ~state.isLoading
    /\ Synced
    /\ state.currentTabs # <<>>


\* the group of document doc with id gid (one that is there)
GroupOf(doc, gid) == doc.groups[FindGroup(doc, gid)]

\* C16: a reconciliation pass keeps, for every persisted group that is there
\* before and after it, the group's created timestamp, category and summary.
C16_PassKeepsGroup ==
    lastOp.kind = "syncTabStates" =>
        \A gid \in GroupIds(lastOp.base) \cap GroupIds(store) :
            /\ GroupOf(store, gid).created = GroupOf(lastOp.base, gid).created
            /\ GroupOf(store, gid).category = GroupOf(lastOp.base, gid).category
            /\ GroupOf(store, gid).summary = GroupOf(lastOp.base, gid).summary

\* C17: updateChromeGroup's write to the persisted group changes only the
\* fields that properties names: of name, color and collapsed, those not named
\* stay as they were, and so do the group's tabs.
C17_OnlyNamedFields ==
    (/\ lastOp.kind = "updateGroup"
     /\ lastOp.updates.summary = Absent
     /\ lastOp.groupId \in GroupIds(lastOp.cur))
        => LET before == GroupOf(lastOp.cur, lastOp.groupId)
               after == GroupOf(store, lastOp.groupId)
           IN  /\ lastOp.updates.name = Undef => after.name = before.name
               /\ lastOp.updates.color = Undef => after.color = before.color
               /\ lastOp.updates.collapsed = Undef => after.collapsed = before.collapsed
               /\ after.tabs = before.tabs

\* C19: the write of a reconciliation pass sets activeGroupId to null.
C19_PassClearsActive ==
    lastOp.kind = "syncTabStates" => store.activeGroupId = Null

\* setActiveGroup made a group active, then a pass wrote: the group is still
\* there and is no longer active
C19_Witness ==
    /\ lastOp.kind = "syncTabStates"
    /\ prevOp.kind = "setActiveGroup"
    /\ prevOp.active # Null
    /\ lastOp.base.activeGroupId = prevOp.active
    /\ \E gid \in GroupIds(store) : Num(gid) = prevOp.active
    /\ store.activeGroupId = Null

\* C20: in every persisted state activeGroupId is null or the id of a group in
\* groups.
C20_ActiveGroupExists ==
    \/ store.activeGroupId = Null
    \/ \E gid \in GroupIds(store) : store.activeGroupId = Num(gid)


----------------------------------------------------------------------------
(* The provider's operations and the side panel's drag handler: each makes  *)
(* its chrome and storage calls one after the other, and any chrome call    *)
(* may be refused                                                           *)

\* operations started in one behaviour
MaxUserOps == 2

ContextOps ==
    {"createTabGroup", "updateChromeGroup", "moveChromeGroup", "deleteTabGroup",
     "openTabGroup", "closeTabGroup"}

ChromeCalls ==
    {"tabs.group", "tabGroups.update", "tabGroups.move", "tabs.ungroup", "tabs.create",
     "tabs.remove", "tabs.move"}

\* createTabGroup: await chrome.tabs.group({ tabIds }), await chrome.tabGroups.update(...)
CreateTabGroupCalls == <<"tabs.group", "tabGroups.update">>

\* updateChromeGroup: await chrome.tabGroups.update, then, if (storageGroup),
\* await tabStorage.updateGroup
UpdateChromeGroupCalls(storageGroup) ==
    <<"tabGroups.update">> \o (IF storageGroup # <<>> THEN <<"tabStorage.updateGroup">> ELSE <<>>)

\* a deleteTabGroup that would remove the persisted group first
DeleteTabGroupCallsStorageFirst(group) ==
    <<"tabStorage.removeGroup">>
    \o (IF Truthy(Num(group.chromeGroupId)) THEN <<"tabs.ungroup">> ELSE <<>>)

\* deleteTabGroup: if (group.chromeGroupId) await chrome.tabs.ungroup(tabIds);
\* await tabStorage.removeGroup(groupId)
DeleteTabGroupCalls(group) ==
    (IF Truthy(Num(group.chromeGroupId)) THEN <<"tabs.ungroup">> ELSE <<>>)
    \o <<"tabStorage.removeGroup">>

\* openTabGroup: for (const tab of group.tabs) await chrome.tabs.create({ url: tab.url })
OpenTabGroupCalls(group) == [i \in 1..Len(group.tabs) |-> "tabs.create"]

\* closeTabGroup: await chrome.tabs.remove(tabIds)
CloseTabGroupCalls == <<"tabs.remove">>

\* a handleDragEnd that would only move the tab along the strip
HandleDragEndCallsMoveOnly(intoGroup) == <<"tabs.move", "refreshTabs">>

\* handleDragEnd: await chrome.tabs.move, then chrome.tabs.ungroup or
\* chrome.tabs.group, then await refreshTabs()
HandleDragEndCalls(intoGroup) ==
    <<"tabs.move", IF intoGroup THEN "tabs.group" ELSE "tabs.ungroup", "refreshTabs">>

\* the id chrome gives the next native group
NewGroupId == CHOOSE g \in Groups : bgroups[g].status = "new" /\ \A h \in Groups : h < g => bgroups[h].status # "new"

\* the native group a chrome.tabGroups call of the operation names
TargetGroup(u) == IF u.kind = "createTabGroup" THEN u.native ELSE u.chromeGroupId

\* chrome resolves the call only if the tabs and the group it names exist
CanSucceed(u, api) ==
    CASE api = "tabs.group" ->
           /\ u.tabIds # <<>>
           /\ Range(u.tabIds) \subseteq OpenTabs
           /\ IF u.chromeGroupId = 0 THEN \E g \in Groups : bgroups[g].status = "new"
              ELSE u.chromeGroupId \in LiveGroups
      [] api \in {"tabGroups.update", "tabGroups.move"} -> TargetGroup(u) \in LiveGroups
      [] api \in {"tabs.ungroup", "tabs.remove"} -> Range(u.tabIds) \subseteq OpenTabs
      [] api = "tabs.move" -> Range(u.tabIds) \subseteq OpenTabs
      [] OTHER -> TRUE

\* s with x taken out and put back at the 0-based index i
MovedTo(s, x, i) ==
    LET rest == SelectSeq(s, LAMBDA y : y # x)
        k == IF i < Len(rest) THEN i ELSE Len(rest)
    IN  SubSeq(rest, 1, k) \o <<x>> \o SubSeq(rest, k + 1, Len(rest))

\* what the properties of chrome.tabGroups.update make of a native group
UpdatedGroup(grp, properties) ==
    [grp EXCEPT !.title = IF properties.title = Absent THEN @ ELSE properties.title.str,
                !.color = IF properties.color = Absent THEN @ ELSE properties.color.str,
                !.collapsed = IF properties.collapsed = Absent THEN @
                              ELSE properties.collapsed.num # 0]

\* the browser's tabs, groups and tab strip once it has carried out the call
BrowserAfter(u, api) ==
    LET same == [tabs |-> btabs, groups |-> bgroups, order |-> border]
        ids == Range(u.tabIds)
    IN  CASE api = "tabs.group" /\ u.chromeGroupId = 0 ->
               [same EXCEPT !.tabs = [t \in Tabs |-> IF t \in ids
                                                     THEN [btabs[t] EXCEPT !.groupId = NewGroupId]
                                                     ELSE btabs[t]],
                            !.groups = [bgroups EXCEPT ![NewGroupId] =
                                           [status |-> "live", title |-> "", color |-> "grey",
                                            collapsed |-> FALSE]]]
          [] api = "tabs.group" /\ u.chromeGroupId # 0 ->
               [same EXCEPT !.tabs = [t \in Tabs |-> IF t \in ids
                                                     THEN [btabs[t] EXCEPT !.groupId = u.chromeGroupId]
                                                     ELSE btabs[t]]]
          [] api = "tabs.ungroup" ->
               [same EXCEPT !.tabs = [t \in Tabs |-> IF t \in ids
                                                     THEN [btabs[t] EXCEPT !.groupId = NoGroup]
                                                     ELSE btabs[t]]]
          [] api = "tabs.remove" ->
               [same EXCEPT !.tabs = [t \in Tabs |-> IF t \in ids
                                                     THEN [btabs[t] EXCEPT !.status = "closed"]
                                                     ELSE btabs[t]],
                            !.order = SelectSeq(border, LAMBDA t : t \notin ids)]
          [] api = "tabs.move" ->
               [same EXCEPT !.order = IF u.tabIds[1] \in Range(border)
                                      THEN MovedTo(border, u.tabIds[1], u.index)
                                      ELSE border]
          [] api = "tabs.create" ->
               \* the new tab gets the next tab id of the window, if the model has one left
               LET free == {t \in Tabs : btabs[t].status = "new" /\ WindowOf(t) = 1}
               IN  IF free = {} THEN same
                   ELSE LET t == CHOOSE x \in free : \A y \in free : x <= y
                        IN  [same EXCEPT !.tabs = [btabs EXCEPT ![t].status = "open"],
                                         !.order = Append(border, t)]
          [] api = "tabGroups.update" ->
               [same EXCEPT !.groups = [bgroups EXCEPT ![TargetGroup(u)] =
                                           UpdatedGroup(@, u.properties)]]
          [] api = "tabGroups.move" ->
               [same EXCEPT !.order =
                   SelectSeq(border, LAMBDA t : btabs[t].groupId = u.chromeGroupId)
                   \o SelectSeq(border, LAMBDA t : btabs[t].groupId # u.chromeGroupId)]
          [] OTHER -> same

\* the chrome.tabGroups.TabGroup that update and move resolve with
ResolvedGroup(grps, g) ==
    [id |-> g, title |-> grps[g].title, color |-> grps[g].color,
     collapsed |-> grps[g].collapsed]

\* currentChromeGroups.map(group => (group.id === groupId ? updatedGroup : group))
ReplacedGroup(chromeGroups, updatedGroup) ==
    [i \in 1..Len(chromeGroups) |->
        IF chromeGroups[i].id = updatedGroup.id THEN updatedGroup ELSE chromeGroups[i]]

\* the setState that follows the call in the operation's try block, and the one
\* of its finally block once the last call is through
StateAfter(u, api, grps) ==
    CASE u.kind = "createTabGroup" /\ api = "tabGroups.update" ->
           [state EXCEPT !.currentChromeGroups = Append(@, ResolvedGroup(grps, u.native)),
                         !.isLoading = FALSE]
      [] u.kind \in {"updateChromeGroup", "moveChromeGroup"}
         /\ api \in {"tabGroups.update", "tabGroups.move"} ->
           [state EXCEPT !.currentChromeGroups =
                             ReplacedGroup(@, ResolvedGroup(grps, u.chromeGroupId)),
                         !.isLoading = FALSE]
      [] u.kind = "deleteTabGroup" /\ api = "tabStorage.removeGroup" ->
           [state EXCEPT !.isLoading = FALSE]
      [] u.kind \in {"openTabGroup", "closeTabGroup"} /\ Len(u.todo) = 1 ->
           [state EXCEPT !.isLoading = FALSE]
      [] OTHER -> state

\* the persisted document after a tabStorage call of the operation
StoreAfter(u, api) ==
    CASE api = "tabStorage.updateGroup" ->
           UpdateGroup(store, u.groupId, UpdatesFromProperties(u.properties), clock)
      [] api = "tabStorage.removeGroup" -> RemoveGroup(store, u.groupId, clock)
      [] OTHER -> store


\* an operation is called: setState(isLoading: true) and its first call goes out.
\* store0 and groups0 remember the document and currentChromeGroups of that moment.
Begun(u) ==
    /\ uop.todo = <<>>
    /\ uop.n < MaxUserOps
    /\ uop' = [u EXCEPT !.n = uop.n + 1, !.store0 = store, !.early = uop.early,
                        !.groups0 = state.currentChromeGroups,
                        !.settled = IF u.todo = <<>> THEN "resolved" ELSE ""]
    /\ state' = IF u.kind = "handleDragEnd" THEN state
                ELSE [state EXCEPT !.isLoading = (u.todo # <<>>)]
    /\ UNCHANGED <<browserVars, events, pass, store, store2, clock, hist, failed, serVars,
                   ops, nops, lastOp, prevOp, running>>

TabIdsOf(tabs) == [i \in 1..Len(tabs) |-> tabs[i].id]

\* createTabGroup(name, tabs, color = 'blue') on a tab of the ungrouped list
CallCreateTabGroup ==
    \E i \in 1..Len(store.ungroupedTabs) :
        /\ \E g \in Groups : bgroups[g].status = "new"
        /\ Begun([NoOperation EXCEPT
                    !.kind = "createTabGroup", !.todo = CreateTabGroupCalls,
                    !.tabIds = <<store.ungroupedTabs[i].id>>,
                    !.properties = [NoProperties EXCEPT !.title = Str("New"),
                                                        !.color = Str("blue")]])

\* updateChromeGroup(groupId, properties), as collapseGroup, setGroupColor and
\* setGroupTitle call it
CallUpdateChromeGroup ==
    \E g \in Ids(state.currentChromeGroups), properties \in PropertiesGiven :
        LET storageGroup == SelectSeq(store.groups, LAMBDA x : x.chromeGroupId = g)
        IN  Begun([NoOperation EXCEPT
                     !.kind = "updateChromeGroup",
                     !.todo = UpdateChromeGroupCalls(storageGroup),
                     !.chromeGroupId = g,
                     !.groupId = IF storageGroup # <<>> THEN storageGroup[1].id ELSE 0,
                     !.properties = properties])

\* moveChromeGroup(groupId, { index: 0 })
CallMoveChromeGroup ==
    \E g \in Ids(state.currentChromeGroups) :
        Begun([NoOperation EXCEPT !.kind = "moveChromeGroup", !.todo = <<"tabGroups.move">>,
                                  !.chromeGroupId = g])

\* an operation on a persisted group: group = tabGroups.find(g => g.id === groupId)
OnGroup(kind, group, calls) ==
    Begun([NoOperation EXCEPT !.kind = kind, !.todo = calls, !.groupId = group.id,
                              !.chromeGroupId = group.chromeGroupId,
                              !.tabIds = TabIdsOf(group.tabs)])

CallDeleteTabGroup ==
    \E i \in 1..Len(store.groups) :
        OnGroup("deleteTabGroup", store.groups[i], DeleteTabGroupCalls(store.groups[i]))

CallOpenTabGroup ==
    \E i \in 1..Len(store.groups) :
        OnGroup("openTabGroup", store.groups[i], OpenTabGroupCalls(store.groups[i]))

CallCloseTabGroup ==
    \E i \in 1..Len(store.groups) :
        OnGroup("closeTabGroup", store.groups[i], CloseTabGroupCalls)

\* a context with isLoading already set before the group is looked up
EarlyReturnLoading(st) == [st EXCEPT !.isLoading = TRUE]

\* the context after const group = tabGroups.find(g => g.id === groupId);
\* if (!group) return;
EarlyReturn(st) == st

\* deleteTabGroup, openTabGroup, closeTabGroup or generateGroupSummary is called
\* with a group id that tabGroups.find does not find, whether or not another
\* operation is in flight: the function returns at once
CallOnMissingGroup ==
    \E kind \in {"deleteTabGroup", "openTabGroup", "closeTabGroup", "generateGroupSummary"},
       groupId \in Groups :
        /\ SelectSeq(store.groups, LAMBDA g : g.id = groupId) = <<>>
        /\ uop.n < MaxUserOps
        /\ uop' = [uop EXCEPT !.n = @ + 1,
                              !.early = [kind |-> kind, groupId |-> groupId, at |-> uop.n + 1]]
        /\ state' = EarlyReturn(state)
        /\ UNCHANGED <<browserVars, events, pass, store, store2, clock, hist, failed, serVars,
                       ops, nops, lastOp, prevOp, running>>

\* handleDragEnd(result) with a destination: a tab of a group dropped on the
\* ungrouped area, an ungrouped tab dropped on a group, a tab of a group dropped
\* on a group
HandleDragEnd ==
    \E index \in {0, 1} :
        \/ \E i \in 1..Len(store.groups) : \E j \in 1..Len(store.groups[i].tabs) :
              Begun([NoOperation EXCEPT
                       !.kind = "handleDragEnd", !.todo = HandleDragEndCalls(FALSE),
                       !.tabIds = <<store.groups[i].tabs[j].id>>, !.index = index,
                       !.debugValue = "Ungrouping tab"])
        \/ \E j \in 1..Len(store.ungroupedTabs), i \in 1..Len(store.groups) :
              Begun([NoOperation EXCEPT
                       !.kind = "handleDragEnd", !.todo = HandleDragEndCalls(TRUE),
                       !.tabIds = <<store.ungroupedTabs[j].id>>, !.index = index,
                       !.chromeGroupId = store.groups[i].chromeGroupId])
        \/ \E i, k \in 1..Len(store.groups) : \E j \in 1..Len(store.groups[i].tabs) :
              Begun([NoOperation EXCEPT
                       !.kind = "handleDragEnd", !.todo = HandleDragEndCalls(TRUE),
                       !.tabIds = <<store.groups[i].tabs[j].id>>, !.index = index,
                       !.chromeGroupId = store.groups[k].chromeGroupId])

\* a chrome or tabStorage call of the operation resolves and the code after the
\* await runs up to the next call or to the end
Resolved ==
    /\ uop.todo # <<>>
    /\ Head(uop.todo) # "refreshTabs"
    /\ CanSucceed(uop, Head(uop.todo))
    /\ LET api == Head(uop.todo)
           b == BrowserAfter(uop, api)
           u == [uop EXCEPT !.native = IF api = "tabs.group" /\ uop.chromeGroupId = 0
                                       THEN NewGroupId ELSE @]
       IN  /\ btabs' = b.tabs
           /\ bgroups' = GroupsAfter(b.tabs, b.groups)
           /\ border' = b.order
           /\ store' = StoreAfter(uop, api)
           /\ state' = StateAfter(u, api, b.groups)
           /\ uop' = [u EXCEPT !.todo = Tail(@), !.calls = @ + 1,
                               !.settled = IF Len(uop.todo) = 1 THEN "resolved" ELSE ""]
    /\ UNCHANGED <<bver, events, pass, store2, clock, hist, failed, serVars,
                   ops, nops, lastOp, prevOp, running>>

\* a catch that would call the refused API again
CaughtRetrying(u, api) ==
    [u EXCEPT !.failed = api, !.calls = @ + 1,
              !.debugValue = IF u.kind = "handleDragEnd" THEN "Error" ELSE @]

\* the operation after its catch block: nothing of the try block is left to run
\* and the async function returns normally
Caught(u, api) ==
    [u EXCEPT !.todo = <<>>, !.failed = api, !.calls = @ + 1, !.settled = "resolved",
              !.debugValue = IF u.kind = "handleDragEnd" THEN "Error" ELSE @]

\* a catch of the provider that would also list the group of the failed operation
CatchStateAppending(u) ==
    IF u.kind = "handleDragEnd" THEN state
    ELSE [state EXCEPT !.error = TRUE, !.isLoading = FALSE,
                       !.currentChromeGroups =
                           IF u.native # 0 THEN Append(@, GroupObj(u.native)) ELSE @]

\* the context after the catch (and finally) block: the provider's operations
\* setState({ error, isLoading: false }); handleDragEnd only sets its debugValue
CatchState(u) ==
    IF u.kind = "handleDragEnd" THEN state
    ELSE [state EXCEPT !.error = TRUE, !.isLoading = FALSE]

\* chrome refuses the call: the await throws into the operation's catch
Refused ==
    /\ uop.todo # <<>>
    /\ Head(uop.todo) \in ChromeCalls
    /\ uop' = Caught(uop, Head(uop.todo))
    /\ state' = CatchState(uop)
    /\ UNCHANGED <<browserVars, events, pass, store, store2, clock, hist, failed, serVars,
                   ops, nops, lastOp, prevOp, running>>

\* handleDragEnd's await refreshTabs(): the pass reads the browser, replaces the
\* document and sets the context
Refreshed ==
    /\ uop.todo # <<>>
    /\ Head(uop.todo) = "refreshTabs"
    /\ store' = StorageSet(store, SyncState(QueryCurrentWindow, QueryAllGroups,
                                            MapOfGroups(QueryAllGroups), clock))
    /\ state' = [state EXCEPT !.currentTabs = QueryCurrentWindow,
                              !.currentChromeGroups = QueryAllGroups,
                              !.error = FALSE,
                              !.isLoading = FALSE]
    /\ uop' = [uop EXCEPT !.todo = <<>>, !.calls = @ + 1, !.settled = "resolved"]
    /\ UNCHANGED <<browserVars, events, pass, store2, clock, hist, failed, serVars,
                   ops, nops, lastOp, prevOp, running>>

\* ... or a query of that pass is refused: refreshTabs catches it itself
RefreshFailed ==
    /\ uop.todo # <<>>
    /\ Head(uop.todo) = "refreshTabs"
    /\ state' = [state EXCEPT !.error = TRUE, !.isLoading = FALSE]
    /\ uop' = [uop EXCEPT !.todo = <<>>, !.calls = @ + 1, !.settled = "resolved"]
    /\ UNCHANGED <<browserVars, events, pass, store, store2, clock, hist, failed, serVars,
                   ops, nops, lastOp, prevOp, running>>

\* the side panel is open and the mount pass has run: the context and the
\* document show the browser as it is
OpsInit ==
    /\ BrowserInit
    /\ pass = [p \in PassIds |-> IdlePass]
    /\ state = [currentTabs |-> QueryCurrentWindow, currentChromeGroups |-> QueryAllGroups,
                isLoading |-> FALSE, error |-> FALSE]
    /\ store = SyncState(QueryCurrentWindow, QueryAllGroups, MapOfGroups(QueryAllGroups), 0)
    /\ store2 = InitialState
    /\ clock = 1
    /\ hist = IdlePass
    /\ failed = "none"
    /\ SerIdle
    /\ OpsIdle

OpsNext ==
    \/ CallCreateTabGroup
    \/ CallUpdateChromeGroup
    \/ CallMoveChromeGroup
    \/ CallDeleteTabGroup
    \/ CallOpenTabGroup
    \/ CallCloseTabGroup
    \/ CallOnMissingGroup
    \/ HandleDragEnd
    \/ Resolved
    \/ Refused
    \/ Refreshed
    \/ RefreshFailed

SpecOps == OpsInit /\ [][OpsNext]_vars

\* C12: when a browser call of createTabGroup, updateChromeGroup, moveChromeGroup,
\* deleteTabGroup, openTabGroup or closeTabGroup is refused, the operation sets
\* the context's error, has no call left to make (none after the refused one, no
\* second attempt, nothing written to storage) and its promise resolves.
C12_FailedCallAborts ==
    (uop.kind \in ContextOps /\ uop.failed # "") =>
        /\ state.error
        /\ uop.todo = <<>>
        /\ store = uop.store0
        /\ uop.settled = "resolved"

\* updateChromeGroup on a group that is persisted: chrome.tabGroups.update was
\* refused, so tabStorage.updateGroup, which was to follow, was not called
C12_Witness ==
    /\ uop.kind = "updateChromeGroup"
    /\ uop.failed = "tabGroups.update"
    /\ uop.groupId # 0
    /\ uop.calls = 1

\* C14: when createTabGroup's chrome.tabs.group succeeded and its
\* chrome.tabGroups.update is refused, the native group just created stays with
\* its member tabs, the error is set, and createTabGroup has not appended the
\* group to currentChromeGroups.
C14_NoRollback ==
    (uop.kind = "createTabGroup" /\ uop.failed = "tabGroups.update") =>
        /\ bgroups[uop.native].status = "live"
        /\ \A t \in Range(uop.tabIds) :
              btabs[t].status = "open" /\ btabs[t].groupId = uop.native
        /\ state.error
        /\ state.currentChromeGroups = uop.groups0

C14_Witness ==
    /\ uop.kind = "createTabGroup"
    /\ uop.failed = "tabGroups.update"
    /\ uop.native \in LiveGroups
    /\ uop.native \notin Ids(uop.groups0)

\* C15: when chrome.tabs.move, chrome.tabs.group or chrome.tabs.ungroup is refused
\* during handleDragEnd, the failure is caught, the context's error is set, the
\* handler's promise resolves and no reconciliation pass writes for that drag.
C15_DragFailureSetsError ==
    (uop.kind = "handleDragEnd" /\ uop.failed # "") =>
        /\ state.error
        /\ uop.settled = "resolved"
        /\ uop.todo = <<>>
        /\ store = uop.store0

\* C18: when deleteTabGroup's chrome.tabs.ungroup is refused,
\* tabStorage.removeGroup is not called, the persisted document with the group
\* and its tabs is as it was, the error is set and isLoading is false again.
C18_DeleteKeepsGroup ==
    (uop.kind = "deleteTabGroup" /\ uop.failed = "tabs.ungroup") =>
        /\ uop.todo = <<>>
        /\ uop.calls = 1
        /\ store = uop.store0
        /\ \E i \in 1..Len(store.groups) :
              store.groups[i].id = uop.groupId /\ TabIdsOf(store.groups[i].tabs) = uop.tabIds
        /\ state.error
        /\ ~state.isLoading

C18_Witness ==
    /\ uop.kind = "deleteTabGroup"
    /\ uop.failed = "tabs.ungroup"
    /\ uop.chromeGroupId \in LiveGroups
    /\ \E i \in 1..Len(store.groups) : store.groups[i].id = uop.groupId


----------------------------------------------------------------------------
\* each tab id is held at most once in the document
OccursOnce(doc) == \A t \in GroupedIds(doc) \cup UngroupedIds(doc) : Places(doc, t) <= 1

\* the tabs of every group of the document, group by group
TabsByGroup(doc) == [i \in 1..Len(doc.groups) |-> doc.groups[i].tabs]

\* C21: from a document in which each tab id occurs at most once, addGroup,
\* removeGroup, addTabsToGroup and removeTabFromGroup, whatever their arguments,
\* write a document in which each tab id occurs at most once.
C21_KeepsTabsUnique ==
    (/\ lastOp.kind \in {"addGroup", "removeGroup", "addTabsToGroup", "removeTabFromGroup"}
     /\ OccursOnce(lastOp.cur))
        => OccursOnce(store)

\* C22: every tab that addTabsToGroup takes out of ungroupedTabs is, in the
\* document it writes, among the tabs of the group named by groupId; when no
\* group has that id, groups and ungroupedTabs are written as they were read.
C22_AddTabsLosesNoTab ==
    LET cur == lastOp.cur
        gid == lastOp.groupId
        taken == UngroupedIds(cur) \ UngroupedIds(store)
    IN  lastOp.kind = "addTabsToGroup" =>
            /\ \A t \in taken :
                  FindGroup(store, gid) # 0 /\ t \in Ids(store.groups[FindGroup(store, gid)].tabs)
            /\ FindGroup(cur, gid) = 0 =>
                  TabsByGroup(store) = TabsByGroup(cur) /\ store.ungroupedTabs = cur.ungroupedTabs

\* C23: removeTabFromGroup(groupId, tabId): when the named group holds a tab of
\* that id, the written group no longer holds it and ungroupedTabs does; when the
\* group does not exist or does not hold the tab, every group's tabs and
\* ungroupedTabs are as read; the tabs of the other groups are as read in
\* both cases.
C23_RemoveTabMoves ==
    LET cur == lastOp.cur
        gid == lastOp.groupId
        g == FindGroup(cur, gid)
        held == g # 0 /\ lastOp.tabId \in Ids(cur.groups[g].tabs)
    IN  lastOp.kind = "removeTabFromGroup" =>
            /\ Len(store.groups) = Len(cur.groups)
            /\ \A i \in 1..Len(cur.groups) :
                  cur.groups[i].id # gid => store.groups[i] = cur.groups[i]
            /\ held => /\ lastOp.tabId \notin Ids(store.groups[g].tabs)
                       /\ lastOp.tabId \in UngroupedIds(store)
                       /\ UngroupedIds(cur) \subseteq UngroupedIds(store)
            /\ ~held => /\ TabsByGroup(store) = TabsByGroup(cur)
                        /\ store.ungroupedTabs = cur.ungroupedTabs

\* a tab was taken out of a group while another group was persisted
C23_Witness ==
    /\ lastOp.kind = "removeTabFromGroup"
    /\ FindGroup(lastOp.cur, lastOp.groupId) # 0
    /\ lastOp.tabId \in Ids(lastOp.cur.groups[FindGroup(lastOp.cur, lastOp.groupId)].tabs)
    /\ lastOp.tabId \in UngroupedIds(store)
    /\ Len(store.groups) = 2

\* C24: after syncWithCurrentTabs(currentTabs) every tab of currentTabs is held
\* exactly once, in a group or in ungroupedTabs, and the document holds no tab
\* that is not in currentTabs.
C24_SyncMatchesCurrentTabs ==
    lastOp.kind = "syncWithCurrentTabs" =>
        /\ \A t \in Ids(lastOp.tabs) : Places(store, t) = 1
        /\ GroupedIds(store) \cup UngroupedIds(store) \subseteq Ids(lastOp.tabs)


----------------------------------------------------------------------------
\* C28: once a reconciliation pass has written, every persisted group has at
\* least one tab, all its tabs are tabs of the current window, the group ids
\* are pairwise distinct and each group's id is its chromeGroupId.
C28_GroupsWellFormed ==
    hist # IdlePass =>
        /\ \A i \in 1..Len(store.groups) :
              /\ Len(store.groups[i].tabs) >= 1
              /\ \A j \in 1..Len(store.groups[i].tabs) :
                    /\ store.groups[i].tabs[j].windowId = 1
                    /\ store.currentWindow = Num(store.groups[i].tabs[j].windowId)
              /\ store.groups[i].id = store.groups[i].chromeGroupId
        /\ \A i, j \in 1..Len(store.groups) :
              store.groups[i].id = store.groups[j].id => i = j

\* a pass wrote two groups while a third native group lives in another window
C28_Witness ==
    /\ hist # IdlePass
    /\ Len(store.groups) = 2
    /\ Cardinality(LiveGroups) = 3

\* C30: isLoading is true whenever a context operation that sets it is in flight;
\* with two refreshTabs overlapping, the one that completes first does not set
\* isLoading to false while the other is still running.
C30_LoadingWhileInFlight ==
    InFlight # {} => state.isLoading


----------------------------------------------------------------------------
(* The incremental provider: its listeners patch the document for the one   *)
(* tab or group of the event, and its refreshTabs asks for tabs and groups  *)
(* in two try blocks of their own                                           *)

\* browser changes in one behaviour of the incremental provider
MaxIncChanges == 2

\* calls of refreshTabs in one behaviour of the incremental provider
MaxRefreshes == 1

\* an event with the id of its tab or group
IncEv(kind, id) == [kind |-> kind, id |-> id]

\* tabGroups.onRemoved for every group that the change emptied
IncRemovedEvents(grps) ==
    LET gone == SortedSeq({g \in Groups : bgroups[g].status = "live" /\ grps[g].status = "gone"})
    IN  [i \in 1..Len(gone) |-> IncEv("groupRemoved", gone[i])]

\* the browser changes and fires its events; the listeners run before the next change
IncChanged(tabs, grps, strip, evs) ==
    /\ bver < MaxIncChanges
    /\ events = <<>>
    /\ btabs' = tabs
    /\ bgroups' = GroupsAfter(tabs, grps)
    /\ border' = strip
    /\ bver' = bver + 1
    /\ events' = evs \o IncRemovedEvents(GroupsAfter(tabs, grps))
    /\ UNCHANGED <<pass, state, store, store2, clock, hist, failed, serVars, opVars>>

IncUserCreatesTab ==
    \E t \in Tabs :
        /\ btabs[t].status = "new"
        /\ IncChanged([btabs EXCEPT ![t].status = "open"], bgroups, Append(border, t),
                      <<IncEv("tabCreated", t)>>)

IncUserClosesTab ==
    \E t \in Range(border) :
        IncChanged([btabs EXCEPT ![t].status = "closed"], bgroups,
                   SelectSeq(border, LAMBDA x : x # t), <<IncEv("tabRemoved", t)>>)

IncUserJoinsGroup ==
    \E t \in Range(border), g \in LiveGroups :
        /\ btabs[t].groupId # g
        /\ \A m \in MembersOf(g) : WindowOf(m) = 1
        /\ IncChanged([btabs EXCEPT ![t].groupId = g], bgroups, border,
                      <<IncEv("tabUpdated", t)>>)

IncUserNewGroup ==
    \E t \in Range(border), g \in Groups :
        /\ bgroups[g].status = "new"
        /\ \A h \in Groups : h < g => bgroups[h].status # "new"
        /\ IncChanged([btabs EXCEPT ![t].groupId = g],
                      [bgroups EXCEPT ![g] = [status |-> "live", title |-> "",
                                              color |-> "grey", collapsed |-> FALSE]],
                      border, <<IncEv("groupCreated", g), IncEv("tabUpdated", t)>>)

IncUserUngroups ==
    \E t \in Range(border) :
        /\ btabs[t].groupId # NoGroup
        /\ IncChanged([btabs EXCEPT ![t].groupId = NoGroup], bgroups, border,
                      <<IncEv("tabUpdated", t)>>)

IncUserUpdatesGroup ==
    \E g \in LiveGroups :
        /\ \E t \in MembersOf(g) : WindowOf(t) = 1
        /\ IncChanged(btabs, [bgroups EXCEPT ![g].title = IF @ = "Mail" THEN "Work" ELSE "Mail"],
                      border, <<IncEv("groupUpdated", g)>>)

\* a listener is run with the event at the head of the queue
IncDelivered(kind) ==
    /\ events # <<>>
    /\ Head(events).kind = kind
    /\ events' = Tail(events)
    /\ UNCHANGED <<browserVars, pass, store2, clock, hist, failed, serVars, opVars>>

\* prev.xs.map(x => (x.id === y.id ? y : x))
ReplacedById(xs, y) == [i \in 1..Len(xs) |-> IF xs[i].id = y.id THEN y ELSE xs[i]]

\* handleTabCreated: currentTabs gets the tab, then tabStorage.addUngroupedTab(tab)
IncHandleTabCreated ==
    /\ IncDelivered("tabCreated")
    /\ LET tab == TabObj(Head(events).id)
       IN  /\ state' = [state EXCEPT !.currentTabs = Append(@, tab)]
           /\ store' = AddUngroupedTab(store, tab, clock)

\* handleTabUpdated's loop: for (const group of tabGroups) if the group holds the
\* tab, tabStorage.updateGroup(group.id, { tabs: group.tabs.map(...) })
RECURSIVE UpdatedInGroups(_, _, _, _)
UpdatedInGroups(doc, tabGroups, tab, now) ==
    IF tabGroups = <<>> THEN doc
    ELSE LET group == Head(tabGroups)
             next == IF tab.id \in Ids(group.tabs)
                     THEN UpdateGroup(doc, group.id,
                                      [NoUpdates EXCEPT
                                          !.tabs = Arr(ReplacedById(group.tabs, tab))], now)
                     ELSE doc
         IN  UpdatedInGroups(next, Tail(tabGroups), tab, now)

\* handleTabUpdated: the tab is replaced in currentTabs, in ungroupedTabs if it is
\* there, and in the groups that hold it
IncHandleTabUpdated ==
    /\ IncDelivered("tabUpdated")
    /\ LET tab == TabObj(Head(events).id)
           doc == IF tab.id \in Ids(store.ungroupedTabs)
                  THEN UpdateUngroupedTabs(store, ReplacedById(store.ungroupedTabs, tab), clock)
                  ELSE store
       IN  /\ state' = [state EXCEPT !.currentTabs = ReplacedById(@, tab)]
           /\ store' = UpdatedInGroups(doc, store.groups, tab, clock)

\* handleTabRemoved's storage call: await tabStorage.removeUngroupedTab(tabId)
TabRemoved(doc, tabId, now) == RemoveUngroupedTab(doc, tabId, now)

\* handleTabRemoved
IncHandleTabRemoved ==
    /\ IncDelivered("tabRemoved")
    /\ state' = [state EXCEPT !.currentTabs =
                                 SelectSeq(@, LAMBDA t : t.id # Head(events).id)]
    /\ store' = TabRemoved(store, Head(events).id, clock)

\* handleGroupCreated: currentChromeGroups gets the group; its tabs are queried
\* and tabStorage.addGroup is called
IncHandleGroupCreated ==
    /\ IncDelivered("groupCreated")
    /\ LET group == GroupObj(Head(events).id)
       IN  /\ state' = [state EXCEPT !.currentChromeGroups = Append(@, group)]
           /\ store' = AddGroup(store, MakeGroup(group, QueryGroupTabs(group.id), clock), clock)

\* tabGroups.find(g => g.chromeGroupId === group.id)
StorageGroupOf(doc, chromeGroupId) ==
    SelectSeq(doc.groups, LAMBDA g : g.chromeGroupId = chromeGroupId)

\* the updates handleGroupUpdated hands to tabStorage.updateGroup
GroupUpdates(group, storageGroup, tabs) ==
    [NoUpdates EXCEPT !.name = Or(Str(group.title), storageGroup.name),
                      !.color = Str(group.color),
                      !.collapsed = Bool(group.collapsed),
                      !.tabs = Arr(tabs)]

\* handleGroupUpdated: the group is replaced in currentChromeGroups; if it has a
\* persisted counterpart, its tabs are queried and tabStorage.updateGroup is called
IncHandleGroupUpdated ==
    /\ IncDelivered("groupUpdated")
    /\ LET group == GroupObj(Head(events).id)
           storageGroup == StorageGroupOf(store, group.id)
       IN  /\ state' = [state EXCEPT !.currentChromeGroups = ReplacedById(@, group)]
           /\ store' = IF storageGroup # <<>>
                       THEN UpdateGroup(store, storageGroup[1].id,
                                        GroupUpdates(group, storageGroup[1],
                                                     QueryGroupTabs(group.id)), clock)
                       ELSE store

\* handleGroupRemoved: the group leaves currentChromeGroups; tabStorage.removeGroup
\* for its persisted counterpart
IncHandleGroupRemoved ==
    /\ IncDelivered("groupRemoved")
    /\ LET storageGroup == StorageGroupOf(store, Head(events).id)
       IN  /\ state' = [state EXCEPT !.currentChromeGroups =
                                        SelectSeq(@, LAMBDA g : g.id # Head(events).id)]
           /\ store' = IF storageGroup # <<>>
                       THEN RemoveGroup(store, storageGroup[1].id, clock)
                       ELSE store

\* the awaited calls of refreshTabs and its final setState
RefreshCalls ==
    <<"tabs.query", "tabStorage.setCurrentWindow", "tabStorage.syncWithCurrentTabs",
      "tabGroups.query", "setState">>

\* the calls of the first try block
TabCalls == {"tabs.query", "tabStorage.setCurrentWindow", "tabStorage.syncWithCurrentTabs"}

\* a refreshTabs that would give up at its first failure
LeftAfterRefusalAborting(todo) == <<"setState">>

\* what is left to do after a call was refused: a failure in the first try block
\* leaves the group query and the setState, a refused group query the setState
LeftAfterRefusal(todo) ==
    IF Head(todo) \in TabCalls THEN <<"tabGroups.query", "setState">> ELSE <<"setState">>

\* refreshTabs is called: setState(isLoading: true), then chrome.tabs.query goes out
IncRefreshTabs ==
    /\ uop.todo = <<>>
    /\ uop.n < MaxRefreshes
    /\ uop' = [NoOperation EXCEPT !.kind = "refreshTabs", !.todo = RefreshCalls,
                                  !.n = uop.n + 1]
    /\ state' = [state EXCEPT !.isLoading = TRUE]
    /\ UNCHANGED <<browserVars, events, pass, store, store2, clock, hist, failed, serVars,
                   ops, nops, lastOp, prevOp, running>>

\* tabs[0]?.windowId
FirstWindowId(tabs) == IF tabs = <<>> THEN Undef ELSE Num(tabs[1].windowId)

\* a call of refreshTabs returns
IncAnswered ==
    /\ uop.kind = "refreshTabs"
    /\ uop.todo # <<>>
    /\ Head(uop.todo) # "setState"
    /\ LET api == Head(uop.todo)
           r == uop.results
       IN  /\ store' = CASE api = "tabStorage.setCurrentWindow" ->
                              SetCurrentWindow(store, FirstWindowId(r.queried), clock)
                         [] api = "tabStorage.syncWithCurrentTabs" ->
                              SyncWithCurrentTabs(store, r.queried, clock)
                         [] OTHER -> store
           /\ uop' = [uop EXCEPT
                        !.todo = Tail(@), !.calls = @ + 1,
                        !.results =
                            CASE api = "tabs.query" -> [r EXCEPT !.queried = QueryCurrentWindow]
                              [] api = "tabStorage.syncWithCurrentTabs" ->
                                   [r EXCEPT !.tabs = [got |-> TRUE, items |-> r.queried]]
                              [] api = "tabGroups.query" ->
                                   [r EXCEPT !.groups = [got |-> TRUE, items |-> QueryAllGroups]]
                              [] OTHER -> r]
    /\ UNCHANGED <<browserVars, events, pass, state, store2, clock, hist, failed, serVars,
                   ops, nops, lastOp, prevOp, running>>

\* a call of refreshTabs is refused: the catch of its try block notes the error
IncRefused ==
    /\ uop.kind = "refreshTabs"
    /\ uop.todo # <<>>
    /\ Head(uop.todo) # "setState"
    /\ uop' = [uop EXCEPT
                 !.todo = LeftAfterRefusal(uop.todo), !.calls = @ + 1,
                 !.results = IF Head(uop.todo) \in TabCalls
                             THEN [@ EXCEPT !.error.tabs = TRUE]
                             ELSE [@ EXCEPT !.error.groups = TRUE]]
    /\ UNCHANGED <<browserVars, events, pass, state, store, store2, clock, hist, failed,
                   serVars, ops, nops, lastOp, prevOp, running>>

\* setState(prev => ({ ...prev, currentTabs: results.tabs ?? prev.currentTabs,
\* currentChromeGroups: results.groups ?? prev.currentChromeGroups,
\* error: results.error, isLoading: false }))
RefreshedState(prev, results) ==
    [prev EXCEPT !.currentTabs = IF results.tabs.got THEN results.tabs.items ELSE @,
                 !.currentChromeGroups = IF results.groups.got THEN results.groups.items ELSE @,
                 !.error = results.error.tabs \/ results.error.groups,
                 !.isLoading = FALSE]

\* refreshTabs' final setState
IncRefreshDone ==
    /\ uop.kind = "refreshTabs"
    /\ uop.todo = <<"setState">>
    /\ state' = RefreshedState(state, uop.results)
    /\ uop' = [uop EXCEPT !.todo = <<>>, !.settled = "resolved"]
    /\ UNCHANGED <<browserVars, events, pass, store, store2, clock, hist, failed, serVars,
                   ops, nops, lastOp, prevOp, running>>

\* the provider is mounted and its document and context show the browser
IncInit == OpsInit

IncNext ==
    \/ IncUserCreatesTab
    \/ IncUserClosesTab
    \/ IncUserJoinsGroup
    \/ IncUserNewGroup
    \/ IncUserUngroups
    \/ IncUserUpdatesGroup
    \/ IncHandleTabCreated
    \/ IncHandleTabUpdated
    \/ IncHandleTabRemoved
    \/ IncHandleGroupCreated
    \/ IncHandleGroupUpdated
    \/ IncHandleGroupRemoved
    \/ IncRefreshTabs
    \/ IncAnswered
    \/ IncRefused
    \/ IncRefreshDone

SpecInc == IncInit /\ [][IncNext]_vars

\* C25: when the incremental provider has handled a tab-removed event, the id
\* of the closed tab is in no group's tabs and not in ungroupedTabs.
C25_ClosedTabGone ==
    [][(events # <<>> /\ Head(events).kind = "tabRemoved" /\ events' = Tail(events))
          => Head(events).id \notin GroupedIds(store') \cup UngroupedIds(store')]_vars

\* C26: when the incremental provider has handled a group-updated event for a
\* group with a persisted counterpart, the persisted group's tabs are the native
\* group's members, no tab that joined the group is in ungroupedTabs, and every
\* tab that left it and is still open is in ungroupedTabs.
C26_GroupUpdateMovesTabs ==
    [][(/\ events # <<>>
        /\ Head(events).kind = "groupUpdated"
        /\ events' = Tail(events)
        /\ StorageGroupOf(store, Head(events).id) # <<>>)
          => LET g == Head(events).id
                 before == Ids(StorageGroupOf(store, g)[1].tabs)
                 after == Ids(StorageGroupOf(store', g)[1].tabs)
             IN  /\ StorageGroupOf(store', g)[1].tabs = QueryGroupTabs(g)
                 /\ (after \ before) \cap UngroupedIds(store') = {}
                 /\ ((before \ after) \cap OpenTabs) \subseteq UngroupedIds(store')]_vars

\* C27: at the end of the incremental refreshTabs each of the two parts was
\* either answered or refused, whatever became of the other; currentTabs is the
\* queried list if the tab query and the storage calls after it succeeded and
\* stays as it was otherwise; currentChromeGroups likewise for the group query;
\* error is set exactly when a part failed; isLoading is false.
C27_PartsIndependent ==
    [][(uop.kind = "refreshTabs" /\ uop.todo = <<"setState">> /\ uop'.todo = <<>>)
          => LET r == uop.results
             IN  /\ r.tabs.got # r.error.tabs
                 /\ r.groups.got # r.error.groups
                 /\ state'.currentTabs = IF r.error.tabs THEN state.currentTabs
                                         ELSE r.queried
                 /\ state'.currentChromeGroups =
                       IF r.error.groups THEN state.currentChromeGroups ELSE r.groups.items
                 /\ state'.error = (r.error.tabs \/ r.error.groups)
                 /\ ~state'.isLoading]_vars

\* a refreshTabs whose storage sync was refused after a tab had been closed: the
\* group query was answered all the same, currentTabs still lists the closed tab
C27_Witness ==
    /\ uop.kind = "refreshTabs"
    /\ uop.settled = "resolved"
    /\ uop.results.error.tabs
    /\ uop.results.queried # <<>>
    /\ uop.results.groups.got
    /\ state.error
    /\ ~state.isLoading
    /\ state.currentTabs # uop.results.queried

----------------------------------------------------------------------------
\* The isLoading flag of the full-resync provider under overlapping context
\* operations. An operation is the list of what it does between its start and
\* its end: writes of isLoading, writes of error, and awaited browser, storage
\* or assistant calls, each of which returns or fails; a failure inside a try
\* block continues at its catch.

\* the most context operations started in one behaviour
MaxStarted == 3

SetLoading(v) == [do |-> "set", v |-> v, to |-> 0]
Await(catch) == [do |-> "await", v |-> FALSE, to |-> catch]
SetError == [do |-> "error", v |-> TRUE, to |-> 0]
ClearError == [do |-> "error", v |-> FALSE, to |-> 0]
Goto(to) == [do |-> "goto", v |-> FALSE, to |-> to]
Return == [do |-> "end", v |-> FALSE, to |-> 0]

\* an operation whose catch block leaves isLoading as it is
TryCatchLeavingLoading(awaits, clears) ==
    LET c == IF clears THEN 1 ELSE 0 IN
    <<SetLoading(TRUE)>> \o [i \in 1..awaits |-> Await(awaits + c + 4)]
    \o (IF clears THEN <<ClearError>> ELSE <<>>)
    \o <<SetLoading(FALSE), Return, SetError, Return>>

\* setState(isLoading: true); try { the awaited calls; setState(isLoading:
\* false) } catch { setState(error, isLoading: false) }, and the same shape
\* written with a finally block
TryCatch(awaits, clears) ==
    LET c == IF clears THEN 1 ELSE 0 IN
    <<SetLoading(TRUE)>> \o [i \in 1..awaits |-> Await(awaits + c + 4)]
    \o (IF clears THEN <<ClearError>> ELSE <<>>)
    \o <<SetLoading(FALSE), Return, SetError, SetLoading(FALSE), Return>>

\* refreshTabs awaits syncTabStates (the tab query, the group query and the
\* storage write) and sets error to null on success
RefreshTabsScript == TryCatch(3, TRUE)

\* createTabGroup awaits chrome.tabs.group and chrome.tabGroups.update
CreateTabGroupScript == TryCatch(2, FALSE)

\* updateChromeGroup sets isLoading to false after chrome.tabGroups.update and
\* then, when a storage group matches, awaits tabStorage.updateGroup
UpdateChromeGroupScripts ==
    {<<SetLoading(TRUE), Await(6), SetLoading(FALSE), Await(6), Return,
       SetError, SetLoading(FALSE), Return>>,
     TryCatch(1, FALSE)}

MoveChromeGroupScript == TryCatch(1, FALSE)

\* deleteTabGroup awaits chrome.tabs.ungroup when the group has a chromeGroupId,
\* then tabStorage.removeGroup
DeleteTabGroupScripts == {TryCatch(2, FALSE), TryCatch(1, FALSE)}

\* openTabGroup awaits one chrome.tabs.create for each tab of the group
OpenTabGroupScripts == {TryCatch(n, FALSE) : n \in 0..2}

CloseTabGroupScript == TryCatch(1, FALSE)

\* autoGroupCurrentTabs awaits suggestTabGroups and then createTabGroup for each
\* suggestion with a tab, here none or one; createTabGroup catches its own
\* failures, and the finally block sets isLoading to false
AutoGroupCurrentTabsScripts ==
    {<<SetLoading(TRUE), Await(12),
       SetLoading(TRUE), Await(8), Await(8), SetLoading(FALSE), Goto(10),
       SetError, SetLoading(FALSE),
       SetLoading(FALSE), Return,
       SetError, SetLoading(FALSE), Return>>,
     TryCatch(1, FALSE)}

\* generateGroupSummary awaits generateContextSummary and tabStorage.updateGroup
GenerateGroupSummaryScript == TryCatch(2, FALSE)

\* deleteTabGroup, openTabGroup, closeTabGroup and generateGroupSummary return
\* before any write when the group is not found
GroupNotFoundScript == <<Return>>

Scripts ==
    {RefreshTabsScript, CreateTabGroupScript, MoveChromeGroupScript, CloseTabGroupScript,
     GenerateGroupSummaryScript, GroupNotFoundScript}
    \cup UpdateChromeGroupScripts \cup DeleteTabGroupScripts \cup OpenTabGroupScripts
    \cup AutoGroupCurrentTabsScripts

\* the operation runs from position pc to its next await or to its end
RECURSIVE Run(_, _, _)
Run(script, pc, st) ==
    LET i == script[pc] IN
    CASE i.do = "set" -> Run(script, pc + 1, [st EXCEPT !.isLoading = i.v])
      [] i.do = "error" -> Run(script, pc + 1, [st EXCEPT !.error = i.v])
      [] i.do = "goto" -> Run(script, i.to, st)
      [] i.do = "await" -> [slot |-> [script |-> script, pc |-> pc], state |-> st]
      [] OTHER -> [slot |-> [script |-> <<>>, pc |-> 0], state |-> st]

LoadInFlight == {o \in LoadIds : running.slot[o].pc # 0}

LoadIdle == UNCHANGED <<browserVars, events, pass, store, store2, clock, hist, failed,
                        serVars, ops, nops, lastOp, prevOp, uop>>

\* a context operation is called and runs to its first await
LoadStarted(o, script) ==
    /\ running.slot[o].pc = 0
    /\ running.started < MaxStarted
    /\ LET r == Run(script, 1, state) IN
         /\ state' = r.state
         /\ running' = [running EXCEPT !.slot[o] = r.slot, !.started = @ + 1]
    /\ LoadIdle

\* the call an operation awaits returns
LoadReturned(o) ==
    /\ running.slot[o].pc # 0
    /\ LET s == running.slot[o]
           r == Run(s.script, s.pc + 1, state) IN
         /\ state' = r.state
         /\ running' = [running EXCEPT !.slot[o] = r.slot]
    /\ LoadIdle

\* the call an operation awaits fails
LoadFailed(o) ==
    /\ running.slot[o].pc # 0
    /\ LET s == running.slot[o]
           r == Run(s.script, s.script[s.pc].to, state) IN
         /\ state' = r.state
         /\ running' = [running EXCEPT !.slot[o] = r.slot]
    /\ LoadIdle

LoadStart == \E o \in LoadIds, script \in Scripts : LoadStarted(o, script)
LoadReturn == \E o \in LoadIds : LoadReturned(o)
LoadFail == \E o \in LoadIds : LoadFailed(o)

LoadInit == OpsInit

LoadNext ==
    \/ LoadStart
    \/ LoadReturn
    \/ LoadFail

SpecLoad == LoadInit /\ [][LoadNext]_vars

\* every awaited browser, storage or assistant call returns or fails
SpecLoadFair ==
    /\ SpecLoad
    /\ \A o \in LoadIds : WF_vars(LoadReturned(o) \/ LoadFailed(o))

\* C29: whenever no context operation is in flight isLoading is false, and
\* every started operation eventually completes provided each call it awaits
\* returns or fails.
C29_IdleMeansNotLoading ==
    /\ [](LoadInFlight = {} => ~state.isLoading)
    /\ \A o \in LoadIds : (running.slot[o].pc # 0) ~> (running.slot[o].pc = 0)

\* every operation started has completed, one of them with a failure
C29_Witness ==
    /\ LoadInFlight = {}
    /\ running.started = MaxStarted
    /\ state.error
    /\ ~state.isLoading

----------------------------------------------------------------------------
\* C31: deleteTabGroup, openTabGroup, closeTabGroup and generateGroupSummary
\* called with a group id that matches no group of tabGroups make no browser
\* call, no AI call and no storage write, and leave isLoading and error as
\* they were.
C31_MissingGroupDoesNothing ==
    [][uop'.early # uop.early =>
          /\ ~\E i \in 1..Len(store.groups) : store.groups[i].id = uop'.early.groupId
          /\ UNCHANGED <<browserVars, store, events>>
          /\ state'.isLoading = state.isLoading
          /\ state'.error = state.error
          /\ uop'.todo = uop.todo
          /\ uop'.calls = uop.calls]_vars

\* generateGroupSummary returned early while another operation was in flight
\* and isLoading was true
C31_Witness ==
    /\ uop.early.kind = "generateGroupSummary"
    /\ uop.early.at = uop.n
    /\ uop.todo # <<>>
    /\ state.isLoading

----------------------------------------------------------------------------
\* Drag and drop in the side panel, from windows of three tabs in which the
\* tabs of a group are neighbours.

\* the group of each tab of the current window, for the windows the side panel
\* may show: groups 1 and 3 are of this window, group 2 is of the other one
DragLayouts ==
    {m \in [{1, 2, 3} -> {NoGroup, 1, 3}] : ~(m[1] = m[3] /\ m[1] # NoGroup /\ m[2] # m[1])}

\* handleDragEnd(result) without a destination: if (!result.destination) return
DropWithoutDestination ==
    Begun([NoOperation EXCEPT !.kind = "handleDragEnd", !.index = -1])

\* the mount pass has run on one of the windows
DragInit ==
    /\ \E m \in DragLayouts :
          /\ btabs = [t \in Tabs |->
                        [status |-> "open", groupId |-> IF t = 4 THEN 2 ELSE m[t],
                         title |-> "a", url |-> "u"]]
          /\ bgroups = [g \in Groups |->
                          [status |-> IF g = 2 \/ \E t \in {1, 2, 3} : m[t] = g THEN "live"
                                      ELSE IF g = 3 THEN "new" ELSE "gone",
                           title |-> "", color |-> "grey", collapsed |-> FALSE]]
    /\ border = <<1, 2, 3>>
    /\ bver = 0
    /\ events = <<>>
    /\ pass = [p \in PassIds |-> IdlePass]
    /\ state = [currentTabs |-> QueryCurrentWindow, currentChromeGroups |-> QueryAllGroups,
                isLoading |-> FALSE, error |-> FALSE]
    /\ store = SyncState(QueryCurrentWindow, QueryAllGroups, MapOfGroups(QueryAllGroups), 0)
    /\ store2 = InitialState
    /\ clock = 1
    /\ hist = IdlePass
    /\ failed = "none"
    /\ SerIdle
    /\ OpsIdle

DragNext ==
    \/ HandleDragEnd
    \/ DropWithoutDestination
    \/ Resolved
    \/ Refused
    \/ Refreshed
    \/ RefreshFailed

SpecDrag == DragInit /\ [][DragNext]_vars

\* the tabs of the list a drop named: the ungrouped list, or the persisted
\* group of the destination's native group
DestinationList(doc, u) ==
    IF u.chromeGroupId = 0 THEN TabIdsOf(doc.ungroupedTabs)
    ELSE LET g == SelectSeq(doc.groups, LAMBDA x : x.chromeGroupId = u.chromeGroupId)
         IN  IF g = <<>> THEN <<>> ELSE TabIdsOf(g[1].tabs)

\* the tabs the destination list showed when the tab was dropped, the dragged
\* tab aside: the drop's index is a position among them
OthersInDestination(u) ==
    SelectSeq(DestinationList(u.store0, u), LAMBDA t : t # u.tabIds[1])

\* the refreshTabs that ends a drag-and-drop completes
DragRefreshed ==
    /\ uop.kind = "handleDragEnd"
    /\ uop.todo = <<"refreshTabs">>
    /\ uop'.todo = <<>>
    /\ ~state'.error

C33_DropKeepsIndex ==
    [][(DragRefreshed /\ uop.index <= Len(OthersInDestination(uop))) =>
          LET list == DestinationList(store', uop)
          IN  /\ uop.index < Len(list)
              /\ list[uop.index + 1] = uop.tabIds[1]]_vars

----------------------------------------------------------------------------
\* autoGroupCurrentTabs: the assistant's suggestions are made into native
\* groups one after the other.  uop.auto holds the currentTabs the callback
\* closed over, the suggestions returned, the suggestion being worked on, the
\* native groups made and the calls refused.

\* the most calls of autoGroupCurrentTabs in one behaviour
MaxAutoRuns == 1

\* the tabIds of a suggestion: tab 4 is of another window
SuggestedTabIds == {<<1>>, <<2, 3>>, <<3>>, <<4>>, <<>>}

\* what suggestTabGroups may return
SuggestionLists ==
    {<<>>} \cup {<<a>> : a \in SuggestedTabIds}
    \cup {<<a, b>> : a \in SuggestedTabIds, b \in SuggestedTabIds}

\* state.currentTabs.filter(tab => suggestion.tabIds.includes(tab.id || -1))
GroupTabs(currentTabs, tabIds) ==
    SelectSeq(currentTabs,
              LAMBDA tab : (IF tab.id # 0 THEN tab.id ELSE -1) \in Range(tabIds))

\* the loop from suggestion i on, up to the next createTabGroup or to its end
RECURSIVE NextSuggestion(_, _)
NextSuggestion(u, i) ==
    IF i > Len(u.auto.suggestions)
    THEN [u EXCEPT !.todo = <<>>, !.settled = "resolved", !.auto.i = i, !.tabIds = <<>>]
    ELSE LET groupTabs == GroupTabs(u.auto.tabs, u.auto.suggestions[i])
         IN  IF Len(groupTabs) > 0
             THEN [u EXCEPT !.todo = CreateTabGroupCalls, !.tabIds = TabIdsOf(groupTabs),
                            !.auto.i = i, !.native = 0]
             ELSE NextSuggestion(u, i + 1)

\* a loop that would end with the first createTabGroup that failed
CreateFailedAborting(u, api) ==
    [u EXCEPT !.todo = <<>>, !.settled = "resolved", !.calls = @ + 1,
              !.auto.refused = @ \cup {<<u.auto.i, api>>}]

\* createTabGroup caught the failure of its call and returned: the loop goes on
\* with the next suggestion
CreateFailed(u, api) ==
    NextSuggestion([u EXCEPT !.calls = @ + 1,
                             !.auto.refused = @ \cup {<<u.auto.i, api>>}],
                   u.auto.i + 1)

\* isLoading once the operation stands at its next await or has ended:
\* createTabGroup sets it on entry, the finally block clears it
LoadingAt(u) == u.todo # <<>>

AutoIdle == UNCHANGED <<events, pass, store, store2, clock, hist, failed, serVars,
                        ops, nops, lastOp, prevOp, running>>

\* autoGroupCurrentTabs is called: setState(isLoading: true) and
\* await suggestTabGroups(state.currentTabs)
CallAutoGroupCurrentTabs ==
    /\ uop.todo = <<>>
    /\ uop.n < MaxAutoRuns
    /\ uop' = [NoOperation EXCEPT !.kind = "autoGroupCurrentTabs",
                                  !.todo = <<"suggestTabGroups">>,
                                  !.n = uop.n + 1, !.store0 = store,
                                  !.groups0 = state.currentChromeGroups,
                                  !.auto.tabs = state.currentTabs]
    /\ state' = [state EXCEPT !.isLoading = TRUE]
    /\ UNCHANGED browserVars
    /\ AutoIdle

\* the assistant answers with its suggestions
SuggestionsReturned ==
    /\ uop.kind = "autoGroupCurrentTabs"
    /\ uop.todo = <<"suggestTabGroups">>
    /\ \E suggestions \in SuggestionLists :
          uop' = NextSuggestion([uop EXCEPT !.calls = @ + 1,
                                            !.auto.suggestions = suggestions], 1)
    /\ state' = [state EXCEPT !.isLoading = LoadingAt(uop')]
    /\ UNCHANGED browserVars
    /\ AutoIdle

\* suggestTabGroups throws: the catch sets error, the finally clears isLoading
SuggestionsRefused ==
    /\ uop.kind = "autoGroupCurrentTabs"
    /\ uop.todo = <<"suggestTabGroups">>
    /\ uop' = [uop EXCEPT !.todo = <<>>, !.calls = @ + 1, !.failed = "suggestTabGroups",
                          !.settled = "resolved"]
    /\ state' = [state EXCEPT !.error = TRUE, !.isLoading = FALSE]
    /\ UNCHANGED browserVars
    /\ AutoIdle

\* a call of the createTabGroup in progress resolves
CreateResolved ==
    /\ uop.kind = "autoGroupCurrentTabs"
    /\ uop.todo # <<>>
    /\ Head(uop.todo) \in Range(CreateTabGroupCalls)
    /\ LET api == Head(uop.todo)
           c == [uop EXCEPT !.kind = "createTabGroup", !.chromeGroupId = 0,
                            !.properties = [NoProperties EXCEPT !.title = Str("New"),
                                                                !.color = Str("blue")]]
       IN  /\ CanSucceed(c, api)
           /\ LET b == BrowserAfter(c, api)
                  made == [uop EXCEPT !.native = NewGroupId, !.todo = Tail(@), !.calls = @ + 1,
                                      !.auto.made = Append(@, [i |-> uop.auto.i,
                                                               native |-> NewGroupId])]
              IN  /\ btabs' = b.tabs
                  /\ bgroups' = GroupsAfter(b.tabs, b.groups)
                  /\ border' = b.order
                  /\ bver' = bver
                  /\ uop' = IF api = "tabs.group" THEN made
                            ELSE NextSuggestion([uop EXCEPT !.calls = @ + 1], uop.auto.i + 1)
                  /\ state' = IF api = "tabs.group" THEN state
                              ELSE [StateAfter(c, api, b.groups) EXCEPT
                                       !.isLoading = LoadingAt(uop')]
    /\ AutoIdle

\* a call of the createTabGroup in progress is refused: its catch sets error and
\* clears isLoading, and createTabGroup returns to the loop
CreateRefused ==
    /\ uop.kind = "autoGroupCurrentTabs"
    /\ uop.todo # <<>>
    /\ Head(uop.todo) \in Range(CreateTabGroupCalls)
    /\ uop' = CreateFailed(uop, Head(uop.todo))
    /\ state' = [state EXCEPT !.error = TRUE, !.isLoading = LoadingAt(uop')]
    /\ UNCHANGED browserVars
    /\ AutoIdle

\* the side panel shows a window of three tabs, the first in a group; two more
\* native groups can be made.  The user may close a tab while the panel still
\* shows it.
AutoInit ==
    /\ btabs = [t \in Tabs |->
                  [status |-> "open", groupId |-> IF t = 1 THEN 1 ELSE NoGroup,
                   title |-> "a", url |-> "u"]]
    /\ bgroups = [g \in Groups |->
                    [status |-> IF g = 1 THEN "live" ELSE "new",
                     title |-> "", color |-> "grey", collapsed |-> FALSE]]
    /\ border = <<1, 2, 3>>
    /\ bver = 0
    /\ events = <<>>
    /\ pass = [p \in PassIds |-> IdlePass]
    /\ state = [currentTabs |-> QueryCurrentWindow, currentChromeGroups |-> QueryAllGroups,
                isLoading |-> FALSE, error |-> FALSE]
    /\ store = SyncState(QueryCurrentWindow, QueryAllGroups, MapOfGroups(QueryAllGroups), 0)
    /\ store2 = InitialState
    /\ clock = 1
    /\ hist = IdlePass
    /\ failed = "none"
    /\ SerIdle
    /\ OpsIdle

AutoNext ==
    \/ CallAutoGroupCurrentTabs
    \/ SuggestionsReturned
    \/ SuggestionsRefused
    \/ CreateResolved
    \/ CreateRefused
    \/ UserClosesTab

SpecAuto == AutoInit /\ [][AutoNext]_vars

\* the suggestions for which autoGroupCurrentTabs has made a native group
MadeFor(u) == {u.auto.made[k].i : k \in 1..Len(u.auto.made)}

\* C34: autoGroupCurrentTabs makes a native group for a suggestion exactly when
\* one of its tabIds is the id of a tab of currentTabs (and chrome does not
\* refuse chrome.tabs.group), in the order the suggestions were returned; a
\* failure of one createTabGroup leaves the later suggestions their groups, and
\* a failure of suggestTabGroups ends the operation with no group made.
C34_SuggestionsBecomeGroups ==
    (uop.kind = "autoGroupCurrentTabs" /\ uop.settled = "resolved") =>
        IF uop.failed = "suggestTabGroups"
        THEN uop.auto.made = <<>> /\ uop.calls = 1 /\ state.error
        ELSE /\ MadeFor(uop) =
                  {i \in 1..Len(uop.auto.suggestions) :
                      /\ \E j \in 1..Len(uop.auto.tabs) :
                            uop.auto.tabs[j].id \in Range(uop.auto.suggestions[i])
                      /\ <<i, "tabs.group">> \notin uop.auto.refused}
             /\ \A k, l \in 1..Len(uop.auto.made) :
                   k < l => /\ uop.auto.made[k].i < uop.auto.made[l].i
                            /\ uop.auto.made[k].native < uop.auto.made[l].native
             /\ \A k \in 1..Len(uop.auto.made) :
                   bgroups[uop.auto.made[k].native].status # "new"

\* the createTabGroup of the first suggestion failed and the second suggestion
\* got its native group
C34_Witness ==
    /\ uop.kind = "autoGroupCurrentTabs"
    /\ uop.settled = "resolved"
    /\ Len(uop.auto.suggestions) = 2
    /\ <<1, "tabs.group">> \in uop.auto.refused
    /\ MadeFor(uop) = {2}
    /\ state.error

============================================================================
